---------------------------- MODULE Spec2Model ----------------------------
(***************************************************************************)
(* Verification model of the football match simulator (FootabAI/footb-ai). *)
(*                                                                         *)
(* Part 1: MatchService (src/server/services/match_service.py), the        *)
(* session that generates a half's timeline and streams it through the     *)
(* async generators stream_first_half / stream_second_half.                *)
(* Part 2: SimpleTacticalMatch (src/server/services/                       *)
(* simple_tactical_match.py), the session that offers update_tactic.       *)
(*                                                                         *)
(* Scaling: Python floats are modelled by integers.  Goal and yellow       *)
(* lambdas and the red-card probability are kept times 1000 (only their    *)
(* being zero or positive decides which draws are possible).  Possession   *)
(* is kept in whole percent; the uniform(-2, 2) jitter is drawn from       *)
(* Jitter.                                                                 *)
(***************************************************************************)
EXTENDS Integers, Sequences, FiniteSets, TLC

\* ------------------------------------------------------------------------
\* Bounds of the model (not program constants)
\* ------------------------------------------------------------------------
\* Largest total number of goal and yellow-card draws (over both teams) that
\* the Poisson samples of one chunk may add up to.
MaxDraws == 1
\* Largest number of stream_first_half / stream_second_half generators a
\* consumer creates on one session.
MaxStreams == 2
\* Largest number of generators a consumer creates on one session when
\* halves are streamed repeatedly.
MaxReplayStreams == 3
\* Largest seed given to the constructor.
MaxSeed == 3
MaxBatch == 2
WindowSize == 2
\* Attribute values tried beside the tactic's own targets, inside and outside
\* the nominal range 0..100.
AttributeSamples == {-50, 0, 100, 250}
\* Fit scores tried, in 1/FitUnit: one in each band, one between the upper
\* two bands (0.79 <= 238/300 < 0.80) and 1.0.
FitSamples == {100, 135, 200, 238, 300}
\* Fit scores are counted in units of 1/FitUnit, effects in units of
\* 1/EffectUnit.
FitUnit == 300
EffectUnit == 90

\* ------------------------------------------------------------------------
\* Program constants
\* ------------------------------------------------------------------------
HalfTimeMinute == 45
FullTimeMinute == 90
SUBS_PER_TEAM == 3
BatchSize == 5
ExtraMin == 1
ExtraMax == 6

Teams == {"home", "away"}

Min(a, b) == IF a < b THEN a ELSE b
Max(a, b) == IF a > b THEN a ELSE b

\* dict.get(key, default)
Get(d, k, default) == IF k \in DOMAIN d THEN d[k] ELSE default

\* ------------------------------------------------------------------------
\* State
\* ------------------------------------------------------------------------
VARIABLES
    params,          \* the instance's parameters (GOALS_LAMBDA_HOME, ...)
    events,          \* self._events
    generated,       \* self._generated
    is_half_time,    \* self._is_half_time
    current_score,   \* self._current_score
    stats,           \* self._stats
    gen,             \* the async generator the consumer is driving
    last,            \* the record most recently handed to the consumer
    hist             \* history: what has been emitted / consumed so far

msvars == <<params, events, generated, is_half_time, current_score, stats,
          gen, last, hist>>

\* The state of a SimpleTacticalMatch object and of its consumer.
VARIABLES
    stm,      \* the fields of the SimpleTacticalMatch object
    sgen,     \* the live async generator on it: kind, state, frame locals
    slast,    \* the record its last successful __anext__ returned
    shist     \* history: whether a stream_first_half generator was ever pulled

stmvars == <<stm, sgen, slast, shist>>

\* The state of one MatchEngineService.simulate_half / generate_simple_events
\* run.
VARIABLE engine

mevars == <<engine>>

\* Two MatchService sessions built with one seed and the parameters of
\* `params`, each with its own consumer.
VARIABLE twin

twvars == <<twin>>

\* One call of TacticalFitCalculator._calculate_team_effects: its argument
\* and, once it has returned, its result.
VARIABLE tfc

tfvars == <<tfc>>

\* Two callers of TacticalFitCalculator, each with the arguments of its call
\* and, once the call has returned, its result.
VARIABLE calc

fcvars == <<calc>>

\* The MatchService class attributes, the objects the sessions created and
\* up to two sessions constructed in the process.
VARIABLE proc

clvars == <<proc>>

\* One CommentaryService: its match context, cache and context window, and
\* the batch and outcome of the latest add_events call.
VARIABLE cs

cmvars == <<cs>>

vars == <<msvars, stmvars, mevars, twvars, tfvars, fcvars, clvars, cmvars>>

\* ------------------------------------------------------------------------
\* Construction: MatchService.__init__
\* ------------------------------------------------------------------------
\* Class-level defaults (lambdas and the red probability times 1000).
ClassDefaults ==
    [GOALS_LAMBDA_HOME |-> 1400, GOALS_LAMBDA_AWAY |-> 1100,
     YELLOW_LAMBDA_HOME |-> 2500, YELLOW_LAMBDA_AWAY |-> 2500,
     RED_PROB_AFTER_YELLOW |-> 60,
     POSSESSION_HOME |-> 52, POSSESSION_AWAY |-> 48,
     SHOTS_HOME |-> 12, SHOTS_AWAY |-> 10,
     SHOTS_ON_TARGET_HOME |-> 5, SHOTS_ON_TARGET_AWAY |-> 4,
     FOULS_HOME |-> 8, FOULS_AWAY |-> 9,
     CORNERS_HOME |-> 6, CORNERS_AWAY |-> 5]

\* tactic_adjustments.get(tactic, 1.0), times 10
TacticAdjustment(tactic) ==
    CASE tactic = "Possession-Based"  -> 12
      [] tactic = "Balanced"          -> 10
      [] tactic = "Counter-Attacking" -> 8
      [] tactic = "Defensive"         -> 7
      [] tactic = "Offensive"         -> 11
      [] tactic = "Aggressive"        -> 11
      [] OTHER                        -> 10

\* _adjust_parameters_from_attributes: the parameters of an instance built
\* without a stats backend.  int() of a non-negative float is the floor; the
\* possession quotient is kept to whole percent.  The yellow lambdas and the
\* red probability keep their class defaults.
AdjustParametersFromAttributes(ha, aa, ht, at) ==
    LET home_shooting == Get(ha, "shooting", 50)
        home_passing  == Get(ha, "passing", 50)
        away_shooting == Get(aa, "shooting", 50)
        away_passing  == Get(aa, "passing", 50)
        home_factor100 == home_shooting + home_passing
        away_factor100 == away_shooting + away_passing
        htf == TacticAdjustment(ht)
        atf == TacticAdjustment(at)
        total_skill == home_passing * htf + away_passing * atf
        possession_home == (home_passing * htf * 100) \div total_skill
        shots_home == (12 * home_factor100 * htf) \div 1000
        shots_away == (12 * away_factor100 * atf) \div 1000
    IN [GOALS_LAMBDA_HOME |-> (ClassDefaults.GOALS_LAMBDA_HOME * home_factor100) \div 100,
        GOALS_LAMBDA_AWAY |-> (ClassDefaults.GOALS_LAMBDA_AWAY * away_factor100) \div 100,
        YELLOW_LAMBDA_HOME |-> ClassDefaults.YELLOW_LAMBDA_HOME,
        YELLOW_LAMBDA_AWAY |-> ClassDefaults.YELLOW_LAMBDA_AWAY,
        RED_PROB_AFTER_YELLOW |-> ClassDefaults.RED_PROB_AFTER_YELLOW,
        POSSESSION_HOME |-> possession_home,
        POSSESSION_AWAY |-> 100 - possession_home,
        SHOTS_HOME |-> shots_home,
        SHOTS_AWAY |-> shots_away,
        SHOTS_ON_TARGET_HOME |-> (shots_home * home_shooting) \div 100,
        SHOTS_ON_TARGET_AWAY |-> (shots_away * away_shooting) \div 100,
        FOULS_HOME |-> (8 * Get(ha, "physicality", 50)) \div 50,
        FOULS_AWAY |-> (8 * Get(aa, "physicality", 50)) \div 50,
        CORNERS_HOME |-> (6 * home_factor100) \div 100,
        CORNERS_AWAY |-> (6 * away_factor100) \div 100]

\* _apply_stats_backend: every parameter is copied from the backend.
ApplyStatsBackend(b) ==
    [GOALS_LAMBDA_HOME |-> b.lambda_home_goals,
     GOALS_LAMBDA_AWAY |-> b.lambda_away_goals,
     YELLOW_LAMBDA_HOME |-> b.lambda_home_yel,
     YELLOW_LAMBDA_AWAY |-> b.lambda_away_yel,
     RED_PROB_AFTER_YELLOW |-> b.prob_red_after_yel,
     POSSESSION_HOME |-> b.lambda_home_poss,
     POSSESSION_AWAY |-> b.lambda_away_poss,
     SHOTS_HOME |-> b.lambda_home_shots,
     SHOTS_AWAY |-> b.lambda_away_shots,
     SHOTS_ON_TARGET_HOME |-> b.lambda_home_sot,
     SHOTS_ON_TARGET_AWAY |-> b.lambda_away_sot,
     FOULS_HOME |-> b.lambda_home_fouls,
     FOULS_AWAY |-> b.lambda_away_fouls,
     CORNERS_HOME |-> b.lambda_home_corners,
     CORNERS_AWAY |-> b.lambda_away_corners]

\* _initialize_stats: no yellowCards / redCards key yet.
InitializeStats ==
    [t \in Teams |-> [possession |-> 0, shots |-> 0, shotsOnTarget |-> 0,
                      fouls |-> 0, corners |-> 0]]

\* The arguments a session is constructed with.  attrs maps attribute names
\* to ratings (a missing name reads as 50); backend is <<>> when no stats
\* backend is supplied and <<b>> when b is.
CtorArgs(ha, aa, ht, at, backend, debug) ==
    [home_attributes |-> ha, away_attributes |-> aa,
     home_tactic |-> ht, away_tactic |-> at,
     backend |-> backend, debug_mode |-> debug]

NoAttributes == [k \in {} |-> 0]

\* A MatchStats object read from a file of a league without goals and yellow
\* cards (total_yel = 0 makes prob_red_after_yel the fallback 0.05), with
\* integer-valued means.
QuietBackend ==
    [lambda_home_goals |-> 0, lambda_away_goals |-> 0,
     lambda_home_yel |-> 0, lambda_away_yel |-> 0,
     prob_red_after_yel |-> 50,
     lambda_home_poss |-> 55, lambda_away_poss |-> 45,
     lambda_home_shots |-> 13, lambda_away_shots |-> 10,
     lambda_home_sot |-> 5, lambda_away_sot |-> 4,
     lambda_home_fouls |-> 12, lambda_away_fouls |-> 13,
     lambda_home_corners |-> 6, lambda_away_corners |-> 4]

\* MatchService.__init__: the parameters of the constructed instance.
ConstructParams(a) ==
    [p |-> IF a.backend # <<>>
           THEN ApplyStatsBackend(a.backend[1])
           ELSE AdjustParametersFromAttributes(a.home_attributes, a.away_attributes,
                                               a.home_tactic, a.away_tactic),
     debug_mode |-> a.debug_mode,
     home_team_attributes |-> a.home_attributes,
     away_team_attributes |-> a.away_attributes]


\* ------------------------------------------------------------------------
\* Timeline generation
\* ------------------------------------------------------------------------
ZeroScore == [home |-> 0, away |-> 0]

\* MatchService._event
Event(minute, team, etype) ==
    [minute |-> minute, team |-> team, type |-> etype, score |-> ZeroScore]

\* The minutes the model samples from rng.choices(range(start+1, end+1)):
\* both ends of the range (all 45 minutes have positive weight).
\* A faulty GoalMinuteSamples: the range taken as range(start, end).
GoalMinuteSamples_ZeroBased(start, end) == {start, end - 1}

GoalMinuteSamples(start, end) == {start + 1, end}

\* Yellow-card minutes sampled: both ends and the minute before the end.
YellowMinuteSamples(start, end) == {start + 1, end - 1, end}

\* The two rng.randint(start+1, end) of the substitutions (home, away): each
\* team at either end of the range.
SubDrawSamples(start, end) == {<<start + 1, end>>, <<end, start + 1>>}

\* rng.randint(*EXTRA_MINUTES): both ends.
ExtraSamples == {ExtraMin, ExtraMax}

\* rng.randint(m + 1, min(m + 25, end_min)) of a follow-up red card: both
\* ends of the range.  The range is empty when m = end_min, and randint then
\* raises ValueError: that outcome is the draw -1.
\* A faulty RedMinuteLower: the red card may share the yellow card's minute.
RedMinuteLower_SameMinute(m) == m

RedMinuteLower(m) == m + 1

\* A faulty RedMinuteUpper: no limit of 25 minutes after the yellow card.
RedMinuteUpper_Uncapped(m, end) == end

RedMinuteUpper(m, end) == Min(m + 25, end)

RedMinuteSamples(m, end) ==
    IF RedMinuteLower(m) <= RedMinuteUpper(m, end)
    THEN {RedMinuteLower(m), RedMinuteUpper(m, end)}
    ELSE {-1}

\* One yellow-card draw: its minute and red, which is 0 when
\* rng.random() >= RED_PROB_AFTER_YELLOW, else the red card's minute (or -1).
YellowDraws(start, end, redProb) ==
    {[m |-> m, red |-> r] :
        <<m, r>> \in {mr \in YellowMinuteSamples(start, end) \X (-1 .. end) :
            \/ mr[2] = 0 /\ redProb < 1000
            \/ redProb > 0 /\ mr[2] # 0 /\ mr[2] \in RedMinuteSamples(mr[1], end)}}

\* Sequences over S of length 0 .. n
SeqUpTo(S, n) == UNION {[1 .. k -> S] : k \in 0 .. n}

\* One goal or yellow-card draw of a chunk.  A Poisson sample of mean 0 is 0,
\* so a team draws goals (yellows) only when its lambda is positive.
DrawItems(start, end, p) ==
    {[k |-> "gh", m |-> m, red |-> 0] :
        m \in IF p.GOALS_LAMBDA_HOME > 0 THEN GoalMinuteSamples(start, end) ELSE {}}
    \cup {[k |-> "ga", m |-> m, red |-> 0] :
        m \in IF p.GOALS_LAMBDA_AWAY > 0 THEN GoalMinuteSamples(start, end) ELSE {}}
    \cup {[k |-> "yh", m |-> y.m, red |-> y.red] :
        y \in IF p.YELLOW_LAMBDA_HOME > 0
              THEN YellowDraws(start, end, p.RED_PROB_AFTER_YELLOW) ELSE {}}
    \cup {[k |-> "ya", m |-> y.m, red |-> y.red] :
        y \in IF p.YELLOW_LAMBDA_AWAY > 0
              THEN YellowDraws(start, end, p.RED_PROB_AFTER_YELLOW) ELSE {}}

\* The draws of kind k, in draw order.
DrawsOfKind(l, k) == SelectSeq(l, LAMBDA x : x.k = k)

\* All outcomes of the random draws of one _generate_timeline_chunk call, at
\* most MaxDraws goal and yellow draws in all: gh / ga the home / away goal
\* draws in draw order, yh / ya the yellow-card draws, sh / sa the
\* substitution minutes (used when the team still has a substitution left),
\* extra the added time.
ChunkDraws(start, end, p) ==
    {[gh |-> DrawsOfKind(l, "gh"), ga |-> DrawsOfKind(l, "ga"),
      yh |-> DrawsOfKind(l, "yh"), ya |-> DrawsOfKind(l, "ya"),
      sh |-> sub[1], sa |-> sub[2], extra |-> x] :
        l \in SeqUpTo(DrawItems(start, end, p), MaxDraws),
        sub \in SubDrawSamples(start, end),
        x \in ExtraSamples}

\* randint raised ValueError during the card simulation.
DrawsRaise(d) ==
    \/ \E i \in 1 .. Len(d.yh) : d.yh[i].red = -1
    \/ \E i \in 1 .. Len(d.ya) : d.ya[i].red = -1

\* _simulate_goals_chunk: home goals, then away goals, in draw order.
SimulateGoalsChunk(d) ==
    [i \in 1 .. Len(d.gh) |-> Event(d.gh[i].m, "home", "goal")]
    \o [i \in 1 .. Len(d.ga) |-> Event(d.ga[i].m, "away", "goal")]

\* The events of one team's yellow draws: each yellow, followed at once by
\* its red card when there is one.
RECURSIVE CardEvents(_, _)
CardEvents(team, ys) ==
    IF ys = <<>> THEN <<>>
    ELSE <<Event(Head(ys).m, team, "yellow_card")>>
         \o (IF Head(ys).red # 0 THEN <<Event(Head(ys).red, team, "red_card")>> ELSE <<>>)
         \o CardEvents(team, Tail(ys))

\* _simulate_yellows_reds_chunk
SimulateYellowsRedsChunk(d) == CardEvents("home", d.yh) \o CardEvents("away", d.ya)

\* Number of substitution events of a team in self._events
SubsMade(evs, team) ==
    Cardinality({i \in 1 .. Len(evs) : evs[i].type = "substitution" /\ evs[i].team = team})

\* subs_in_chunk = max(0, min(1, SUBS_PER_TEAM - made))
SubsInChunk(evs, team) == Max(0, Min(1, SUBS_PER_TEAM - SubsMade(evs, team)))

\* _simulate_substitutions_chunk
SimulateSubstitutionsChunk(evs, d) ==
    (IF SubsInChunk(evs, "home") = 1 THEN <<Event(d.sh, "home", "substitution")>> ELSE <<>>)
    \o (IF SubsInChunk(evs, "away") = 1 THEN <<Event(d.sa, "away", "substitution")>> ELSE <<>>)

\* The static markers appended by _generate_timeline_chunk.
ChunkMarkers(start, end, d) ==
    (IF start <= HalfTimeMinute /\ HalfTimeMinute <= end
     THEN <<Event(HalfTimeMinute, "info", "half-time")>> ELSE <<>>)
    \o (IF start <= FullTimeMinute /\ FullTimeMinute <= end
        THEN <<Event(FullTimeMinute + d.extra, "info", "full-time")>> ELSE <<>>)

\* list.sort(key=minute): a stable sort, here by insertion.
RECURSIVE InsertByMinute(_, _)
InsertByMinute(sorted, e) ==
    IF sorted = <<>> THEN <<e>>
    ELSE IF sorted[Len(sorted)].minute <= e.minute THEN Append(sorted, e)
    ELSE Append(InsertByMinute(SubSeq(sorted, 1, Len(sorted) - 1), e), sorted[Len(sorted)])

RECURSIVE SortFrom(_, _)
SortFrom(sorted, rest) ==
    IF rest = <<>> THEN sorted ELSE SortFrom(InsertByMinute(sorted, Head(rest)), Tail(rest))

\* A faulty SortByMinute: the list left in generation order.
SortByMinute_Unsorted(raw) == raw

SortByMinute(raw) == SortFrom(<<>>, raw)

\* The score after an event: a goal adds one to its team.
ScoreAfter(score, e) ==
    IF e.type = "goal" THEN [score EXCEPT ![e.team] = @ + 1] ELSE score

\* The forward pass over a list that counts goals into self._current_score
\* and attaches a copy of it to each event.  Returns the scored list and
\* the resulting self._current_score.
RECURSIVE ScorePass(_, _, _)
ScorePass(done, rest, score) ==
    IF rest = <<>> THEN [events |-> done, score |-> score]
    ELSE LET s == ScoreAfter(score, Head(rest))
         IN ScorePass(Append(done, [Head(rest) EXCEPT !.score = s]), Tail(rest), s)

\* The fixed list of _generate_debug_timeline_chunk.
DebugEvents ==
    << Event(2, "home", "yellow_card"), Event(5, "home", "goal"),
       Event(12, "away", "yellow_card"), Event(15, "away", "goal"),
       Event(18, "home", "substitution"), Event(25, "home", "goal"),
       Event(28, "away", "yellow_card"), Event(32, "home", "yellow_card"),
       Event(35, "away", "goal"), Event(38, "away", "red_card"),
       Event(42, "home", "goal"), Event(45, "info", "half-time"),
       Event(48, "away", "substitution"), Event(52, "home", "yellow_card"),
       Event(55, "home", "substitution"), Event(58, "away", "yellow_card"),
       Event(62, "home", "goal"), Event(65, "away", "substitution"),
       Event(68, "home", "yellow_card"), Event(72, "away", "goal"),
       Event(75, "home", "substitution"), Event(78, "away", "yellow_card"),
       Event(82, "home", "goal"), Event(85, "away", "yellow_card"),
       Event(88, "home", "yellow_card"), Event(90, "info", "full-time") >>

\* _generate_debug_timeline_chunk: the score pass runs over the whole fixed
\* list, then the events of the chunk are filtered out.
GenerateDebugTimelineChunk(start, end, score) ==
    LET pass == ScorePass(<<>>, DebugEvents, score)
    IN [events |-> SelectSeq(pass.events, LAMBDA e : start < e.minute /\ e.minute <= end),
        score |-> pass.score]

\* The unsorted event list of a chunk: goals, cards, substitutions, markers.
RawChunk(start, end, d, evs) ==
    SimulateGoalsChunk(d) \o SimulateYellowsRedsChunk(d)
    \o SimulateSubstitutionsChunk(evs, d) \o ChunkMarkers(start, end, d)

\* _generate_timeline_chunk for draws d that do not raise: the generated
\* events with their scores, and the self._current_score it leaves.
GenerateTimelineChunk(start, end, d, evs, score, debug) ==
    IF debug THEN GenerateDebugTimelineChunk(start, end, score)
    ELSE ScorePass(<<>>, SortByMinute(RawChunk(start, end, d, evs)), score)


\* ------------------------------------------------------------------------
\* Stats simulation
\* ------------------------------------------------------------------------
\* rng.uniform(-2, 2), in whole percent: both ends and the middle.
Jitter == {-2, 0, 2}

\* d[k] = v on a dict that may not have the key yet
SetKey(d, k, v) == [x \in DOMAIN d \cup {k} |-> IF x = k THEN v ELSE d[x]]

\* int(PARAM * progress) with progress = minute / 90
Progressive(param, minute) == (param * minute) \div FullTimeMinute

\* _update_progressive_stats: hasattr(self, 'stats_backend') is always
\* false (no code sets that attribute), so the linear branch is the one run.
UpdateProgressiveStats(st, minute, p) ==
    [st EXCEPT
        !["home"] = [@ EXCEPT !.shots = Progressive(p.SHOTS_HOME, minute),
                              !.shotsOnTarget = Progressive(p.SHOTS_ON_TARGET_HOME, minute),
                              !.corners = Progressive(p.CORNERS_HOME, minute),
                              !.fouls = Progressive(p.FOULS_HOME, minute)],
        !["away"] = [@ EXCEPT !.shots = Progressive(p.SHOTS_AWAY, minute),
                              !.shotsOnTarget = Progressive(p.SHOTS_ON_TARGET_AWAY, minute),
                              !.corners = Progressive(p.CORNERS_AWAY, minute),
                              !.fouls = Progressive(p.FOULS_AWAY, minute)]]

\* A faulty ClampShotsOnTarget: the clamp left out.
ClampShotsOnTarget_NoClamp(sot, shots) == sot

\* The shots-on-target clamp of _normalize_stats.
ClampShotsOnTarget(sot, shots) == Min(sot, shots)

\* The possession clamp of _normalize_stats.
ClampPossession(x) == Max(0, Min(100, x))

\* _normalize_stats
NormalizeStats(st) ==
    [t \in Teams |->
        [st[t] EXCEPT !.possession = ClampPossession(@),
                      !.shotsOnTarget = ClampShotsOnTarget(@, st[t].shots)]]

\* The possession pair written at the top of _update_stats.
ResamplePossession(st, jit, p) ==
    LET home == p.POSSESSION_HOME + jit
    IN [st EXCEPT !["home"] = [@ EXCEPT !.possession = home],
                  !["away"] = [@ EXCEPT !.possession = 100 - home]]

\* _update_stats: returns the new self._stats and self._current_score.
UpdateStats(st, score, ev, jit, p) ==
    LET s1 == ResamplePossession(st, jit, p)
        s2 == CASE ev.type = "goal" ->
                     [s1 EXCEPT ![ev.team] = [@ EXCEPT !.shots = @ + 1,
                                                       !.shotsOnTarget = @ + 1]]
                [] ev.type = "yellow_card" ->
                     [s1 EXCEPT ![ev.team] =
                         SetKey(@, "yellowCards", Get(@, "yellowCards", 0) + 1)]
                [] ev.type = "red_card" ->
                     [s1 EXCEPT ![ev.team] =
                         SetKey(@, "redCards", Get(@, "redCards", 0) + 1)]
                [] OTHER -> UpdateProgressiveStats(s1, ev.minute, p)
    IN [stats |-> NormalizeStats(s2), score |-> ScoreAfter(score, ev)]


\* ------------------------------------------------------------------------
\* Streaming: the async generators and their consumer
\* ------------------------------------------------------------------------
\* A generator object.  st: "none" (the consumer holds no generator),
\* "created" (not yet started), "suspended" (at a yield), "done" (ran to its
\* end), "failed" (raised err), "closed" (abandoned by the consumer).  idx and
\* current_minute are the frame's loop position; evs is the local
\* second_half_events list; emitted counts the records it has yielded.
NoGen ==
    [kind |-> "none", st |-> "none", sid |-> 0, idx |-> 1, current_minute |-> 0,
     evs |-> <<>>, emitted |-> 0, err |-> ""]

NewGen(kind, sid) ==
    [kind |-> kind, st |-> "created", sid |-> sid, idx |-> 1,
     current_minute |-> IF kind = "first" THEN 0 ELSE HalfTimeMinute,
     evs |-> <<>>, emitted |-> 0, err |-> ""]

\* The frame is gone once the generator has ended.
EndGen(g, st, err) ==
    [g EXCEPT !.st = st, !.err = err, !.idx = 1, !.current_minute = 0, !.evs = <<>>]

NoRecord ==
    [sid |-> 0, seq |-> 0, stream |-> "none", kind |-> "none", minute |-> 0,
     team |-> "", type |-> "", score |-> ZeroScore, stats |-> InitializeStats]

\* The minute_update dict yielded between events.
MinuteUpdate(g, minute, score, st) ==
    [sid |-> g.sid, seq |-> g.emitted + 1, stream |-> g.kind, kind |-> "minute_update",
     minute |-> minute, team |-> "", type |-> "", score |-> score, stats |-> st]

\* The event dict yielded by _process_event: the event with the score
\* attached at generation and the stats after _update_stats.
EventRecord(g, ev, st) ==
    [sid |-> g.sid, seq |-> g.emitted + 1, stream |-> g.kind, kind |-> "event",
     minute |-> ev.minute, team |-> ev.team, type |-> ev.type,
     score |-> ev.score, stats |-> st]

\* The draws of a chunk; the debug timeline draws nothing.
DrawsOf(start, end) ==
    IF params.debug_mode
    THEN {[gh |-> <<>>, ga |-> <<>>, yh |-> <<>>, ya |-> <<>>,
           sh |-> start + 1, sa |-> start + 1, extra |-> ExtraMin]}
    ELSE ChunkDraws(start, end, params.p)

\* The first-half loop leaves at the first event after minute 45.
FirstHalfBreak(ev) == ev.minute > HalfTimeMinute

\* The minute-update loop runs while current_minute < ev["minute"].
NeedsTick(cur, ev) == cur < ev.minute

\* What the end of the first-half generator does to self._is_half_time.
HalfTimeAfter(isFirst, flag) == IF isFirst THEN TRUE ELSE flag

\* Run the generator g from loop position (i, cur) over list to its next
\* yield or to its end; score0 is self._current_score at that point.
Advance(list, score0, i, cur, isFirst, g) ==
    LET fin == IF i > Len(list) THEN TRUE ELSE (isFirst /\ FirstHalfBreak(list[i]))
    IN \/ /\ fin
          /\ gen' = EndGen(g, "done", "")
          /\ is_half_time' = HalfTimeAfter(isFirst, is_half_time)
          /\ current_score' = score0
          /\ hist' = [hist EXCEPT !.first_done = @ \/ isFirst,
                                  !.second_done = @ \/ ~isFirst]
          /\ UNCHANGED <<stats, last>>
       \/ /\ ~fin
          /\ NeedsTick(cur, list[i])
          /\ gen' = [g EXCEPT !.st = "suspended", !.idx = i,
                              !.current_minute = cur + 1, !.emitted = @ + 1]
          /\ last' = MinuteUpdate(g, cur + 1, score0, stats)
          /\ current_score' = score0
          /\ hist' = [hist EXCEPT !.last_tick = cur + 1]
          /\ UNCHANGED <<stats, is_half_time>>
       \/ /\ ~fin
          /\ ~NeedsTick(cur, list[i])
          /\ \E jit \in Jitter :
                LET u == UpdateStats(stats, score0, list[i], jit, params.p)
                IN /\ stats' = u.stats
                   /\ current_score' = u.score
                   /\ last' = EventRecord(g, list[i], u.stats)
          /\ gen' = [g EXCEPT !.st = "suspended", !.idx = i + 1,
                              !.current_minute = cur, !.emitted = @ + 1]
          /\ hist' = [hist EXCEPT !.goals = ScoreAfter(@, list[i]),
                                  !.half_time_emitted = @ \/ list[i].type = "half-time",
                                 !.yellows = IF list[i].type = "yellow_card"
                                             THEN [@ EXCEPT ![list[i].team] = @ \cup {list[i].minute}]
                                             ELSE @]
          /\ UNCHANGED is_half_time

\* The consumer has no live generator.
ConsumerIdle == gen.st \in {"none", "done", "failed", "closed"}

\* The consumer calls stream_first_half(): a generator object is created;
\* none of its body runs yet.
StartFirstHalf(budget) ==
    /\ ConsumerIdle
    /\ hist.streams < budget
    /\ gen' = NewGen("first", hist.streams + 1)
    /\ hist' = [hist EXCEPT !.streams = @ + 1, !.last_tick = 0,
                         !.yellows = [t \in Teams |-> {}]]
    /\ UNCHANGED <<params, events, generated, is_half_time, current_score, stats, last>>
    /\ UNCHANGED <<stmvars, mevars, twvars, tfvars, fcvars, clvars, cmvars>>

\* The consumer calls stream_second_half().
StartSecondHalf(budget) ==
    /\ ConsumerIdle
    /\ hist.streams < budget
    /\ gen' = NewGen("second", hist.streams + 1)
    /\ hist' = [hist EXCEPT !.streams = @ + 1, !.last_tick = 0,
                         !.yellows = [t \in Teams |-> {}]]
    /\ UNCHANGED <<params, events, generated, is_half_time, current_score, stats, last>>
    /\ UNCHANGED <<stmvars, mevars, twvars, tfvars, fcvars, clvars, cmvars>>

\* The consumer stops consuming: the generator is closed (aclose, or
\* collection) where it stands, and none of its remaining body runs.
CloseStream ==
    /\ gen.st \in {"created", "suspended"}
    /\ gen' = EndGen(gen, "closed", "")
    /\ UNCHANGED <<params, events, generated, is_half_time, current_score, stats, last, hist>>
    /\ UNCHANGED <<stmvars, mevars, twvars, tfvars, fcvars, clvars, cmvars>>

\* One __anext__ on the stream_first_half generator.
PullFirstHalf ==
    /\ gen.kind = "first"
    /\ gen.st \in {"created", "suspended"}
    /\ \/ /\ gen.st = "created"
          /\ ~generated
          /\ \E d \in DrawsOf(0, HalfTimeMinute) :
                /\ ~DrawsRaise(d)
                /\ LET c == GenerateTimelineChunk(0, HalfTimeMinute, d, <<>>,
                                                  current_score, params.debug_mode)
                   IN /\ events' = c.events
                      /\ generated' = TRUE
                      /\ Advance(c.events, c.score, 1, 0, TRUE, gen)
       \/ /\ gen.st = "created"
          /\ ~generated
          /\ \E d \in DrawsOf(0, HalfTimeMinute) : DrawsRaise(d)
          /\ events' = <<>>
          /\ gen' = EndGen(gen, "failed", "ValueError")
          /\ UNCHANGED <<generated, is_half_time, current_score, stats, last, hist>>
       \/ /\ gen.st = "created"
          /\ generated
          /\ UNCHANGED <<events, generated>>
          /\ Advance(events, current_score, 1, 0, TRUE, gen)
       \/ /\ gen.st = "suspended"
          /\ UNCHANGED <<events, generated>>
          /\ Advance(events, current_score, gen.idx, gen.current_minute, TRUE, gen)
    /\ UNCHANGED params
    /\ UNCHANGED <<stmvars, mevars, twvars, tfvars, fcvars, clvars, cmvars>>

\* A faulty SecondHalfAllowed: the guard left out.
SecondHalfAllowed_NoGuard == TRUE

\* The guard at the top of stream_second_half.
SecondHalfAllowed == is_half_time

\* One __anext__ on the stream_second_half generator.
PullSecondHalf ==
    /\ gen.kind = "second"
    /\ gen.st \in {"created", "suspended"}
    /\ \/ /\ gen.st = "created"
          /\ ~SecondHalfAllowed
          /\ gen' = EndGen(gen, "failed", "RuntimeError")
          /\ UNCHANGED <<events, generated, is_half_time, current_score, stats, last, hist>>
       \/ /\ gen.st = "created"
          /\ SecondHalfAllowed
          /\ \E d \in DrawsOf(HalfTimeMinute, FullTimeMinute) :
                /\ ~DrawsRaise(d)
                /\ LET c == GenerateTimelineChunk(HalfTimeMinute, FullTimeMinute, d, events,
                                                  current_score, params.debug_mode)
                   IN /\ events' = events \o c.events
                      /\ Advance(c.events, c.score, 1, HalfTimeMinute, FALSE,
                                 [gen EXCEPT !.evs = c.events])
          /\ UNCHANGED generated
       \/ /\ gen.st = "created"
          /\ SecondHalfAllowed
          /\ \E d \in DrawsOf(HalfTimeMinute, FullTimeMinute) : DrawsRaise(d)
          /\ gen' = EndGen(gen, "failed", "ValueError")
          /\ UNCHANGED <<events, generated, is_half_time, current_score, stats, last, hist>>
       \/ /\ gen.st = "suspended"
          /\ UNCHANGED <<events, generated>>
          /\ Advance(gen.evs, current_score, gen.idx, gen.current_minute, FALSE, gen)
    /\ UNCHANGED params
    /\ UNCHANGED <<stmvars, mevars, twvars, tfvars, fcvars, clvars, cmvars>>

\* ------------------------------------------------------------------------
\* TacticalFitCalculator
\* ------------------------------------------------------------------------
\* Numbers are held exactly as integers: a fit score in 1/300 (three required
\* attributes, each closeness in 1/100), positive_effect, negative_effect and
\* penalty in 1/90, the per-match means in 1/100, the tactical effects in
\* 1/100, shots/target/corners/fouls in 1/10^4 and goal_probability in
\* 1/(10^4 * 90^3).

Abs(x) == IF x < 0 THEN -x ELSE x

\* str.lower on the tactic names used here.
Lower(tactic) == CASE tactic = "Tiki-Taka" -> "tiki-taka" [] OTHER -> tactic

\* The table of _get_required_attributes.
TacticTargets ==
    ("tiki-taka" :> [passing |-> 90, dribbling |-> 75, pace |-> 60]) @@
    ("gegenpressing" :> [pace |-> 85, defending |-> 80, physicality |-> 80]) @@
    ("catenaccio" :> [defending |-> 95, physicality |-> 70, pace |-> 55]) @@
    ("total-football" :> [passing |-> 80, dribbling |-> 80, pace |-> 80]) @@
    ("park-the-bus" :> [defending |-> 90, physicality |-> 80, passing |-> 45]) @@
    ("direct-play" :> [physicality |-> 85, shooting |-> 75, pace |-> 70])

\* _get_required_attributes: an unknown tactic has no required attributes.
GetRequiredAttributes(tactic) == Get(TacticTargets, Lower(tactic), NoAttributes)

\* Sum over the attributes in S of the closeness 1 - |value - target| / 100,
\* a missing attribute reading as 50.
RECURSIVE ClosenessSum(_, _, _)
ClosenessSum(attrs, req, S) ==
    IF S = {} THEN 0
    ELSE LET a == CHOOSE x \in S : TRUE
         IN (100 - Abs(Get(attrs, a, 50) - req[a])) + ClosenessSum(attrs, req, S \ {a})

\* A faulty CalculateTacticalFit: the mean distance |value - target| / 100
\* is returned, the "1 -" left out.
CalculateTacticalFit_Distance(attrs, tactic) ==
    LET req == GetRequiredAttributes(tactic)
    IN IF DOMAIN req = {} THEN 0
       ELSE 100 * Cardinality(DOMAIN req) - ClosenessSum(attrs, req, DOMAIN req)

\* calculate_tactical_fit: the mean closeness, 0.0 for a tactic without
\* required attributes.
CalculateTacticalFit(attrs, tactic) ==
    LET req == GetRequiredAttributes(tactic)
    IN IF DOMAIN req = {} THEN 0 ELSE ClosenessSum(attrs, req, DOMAIN req)

\* A faulty CalculateTeamEffects: between 0.40 and 0.80 the penalty is the
\* complement of the scale, so both are positive above 0.50.
CalculateTeamEffects_Overlapping(tfs) ==
    IF tfs >= 240
    THEN [positive_effect |-> 90, negative_effect |-> 90, penalty |-> 0]
    ELSE IF tfs >= 120
    THEN [positive_effect |-> Max(0, tfs - 150), negative_effect |-> Max(0, tfs - 150),
          penalty |-> 90 - Max(0, tfs - 150)]
    ELSE [positive_effect |-> 0, negative_effect |-> 0, penalty |-> 90]

\* _calculate_team_effects: the bands 0.80, [0.50, 0.79), [0.40, 0.49) and
\* the rest.
CalculateTeamEffects(tfs) ==
    IF tfs >= 240
    THEN [positive_effect |-> 90, negative_effect |-> 90, penalty |-> 0]
    ELSE IF 150 <= tfs /\ tfs < 237
    THEN [positive_effect |-> tfs - 150, negative_effect |-> tfs - 150, penalty |-> 0]
    ELSE IF 120 <= tfs /\ tfs < 147
    THEN [positive_effect |-> 0, negative_effect |-> 0, penalty |-> 3 * (150 - tfs)]
    ELSE [positive_effect |-> 0, negative_effect |-> 0, penalty |-> 90]

\* A call of _calculate_team_effects that has not run yet.
TeamEffectsCall(tfs) == [tfs |-> tfs, returned |-> FALSE, effects |-> <<>>]

\* _calculate_team_effects runs on its argument and returns the profile.
CallCalculateTeamEffects ==
    /\ ~tfc.returned
    /\ tfc' = [tfc EXCEPT !.returned = TRUE, !.effects = CalculateTeamEffects(tfc.tfs)]
    /\ UNCHANGED <<msvars, stmvars, mevars, twvars, fcvars, clvars, cmvars>>

\* A faulty StatsMeans: the home and the away means exchanged.
StatsMeans_Exchanged ==
    [home |-> [shots |-> 1041, target |-> 414, corners |-> 462, fouls |-> 1308],
     away |-> [shots |-> 1276, target |-> 512, corners |-> 567, fouls |-> 1262]]

\* The per-match means used when match_statistics.json is not found.
StatsMeans ==
    [home |-> [shots |-> 1276, target |-> 512, corners |-> 567, fouls |-> 1262],
     away |-> [shots |-> 1041, target |-> 414, corners |-> 462, fouls |-> 1308]]

\* The table of _load_tactical_effects.
TacticalEffects ==
    ("tiki-taka" :>
        [home |-> [shots |-> 8, target |-> 10, corners |-> 12, fouls |-> -5],
         away |-> [shots |-> -10, target |-> -12, corners |-> -10, fouls |-> -5]]) @@
    ("gegenpressing" :>
        [home |-> [shots |-> 15, target |-> 18, corners |-> 5, fouls |-> 10],
         away |-> [shots |-> -15, target |-> -15, corners |-> -8, fouls |-> 10]]) @@
    ("catenaccio" :>
        [home |-> [shots |-> -10, target |-> -10, corners |-> -15, fouls |-> -10],
         away |-> [shots |-> -5, target |-> -5, corners |-> -10, fouls |-> -2]]) @@
    ("total-football" :>
        [home |-> [shots |-> 12, target |-> 12, corners |-> 10, fouls |-> 0],
         away |-> [shots |-> -10, target |-> -10, corners |-> -5, fouls |-> 0]]) @@
    ("park-the-bus" :>
        [home |-> [shots |-> -12, target |-> -10, corners |-> -10, fouls |-> -15],
         away |-> [shots |-> -5, target |-> -5, corners |-> -5, fouls |-> -10]]) @@
    ("direct-play" :>
        [home |-> [shots |-> 20, target |-> 15, corners |-> 8, fouls |-> 5],
         away |-> [shots |-> -2, target |-> -2, corners |-> -5, fouls |-> 5]])

\* A faulty TeamEffects: the factor (1 - penalty) is left out of the goal
\* probability.
TeamEffects_PenaltyOmitted(side, tfs, tactic) ==
    LET base == CalculateTeamEffects(tfs)
        tactical == Get(Get(TacticalEffects, Lower(tactic), NoAttributes), side, NoAttributes)
        mean == StatsMeans[side]
        target == mean.target * (100 + Get(tactical, "target", 0))
    IN [positive_effect |-> base.positive_effect,
        negative_effect |-> base.negative_effect,
        penalty |-> base.penalty,
        shots |-> mean.shots * (100 + Get(tactical, "shots", 0)),
        target |-> target,
        corners |-> mean.corners * (100 + Get(tactical, "corners", 0)),
        fouls |-> mean.fouls * (100 + Get(tactical, "fouls", 0)),
        goal_probability |-> target * (90 + base.positive_effect) * 90]

\* One team's profile in calculate_match_effects. The goal probability is
\* (shots / 90) * (target / shots) * (1 + positive_effect) * (1 - penalty).
TeamEffects(side, tfs, tactic) ==
    LET base == CalculateTeamEffects(tfs)
        tactical == Get(Get(TacticalEffects, Lower(tactic), NoAttributes), side, NoAttributes)
        mean == StatsMeans[side]
        target == mean.target * (100 + Get(tactical, "target", 0))
    IN [positive_effect |-> base.positive_effect,
        negative_effect |-> base.negative_effect,
        penalty |-> base.penalty,
        shots |-> mean.shots * (100 + Get(tactical, "shots", 0)),
        target |-> target,
        corners |-> mean.corners * (100 + Get(tactical, "corners", 0)),
        fouls |-> mean.fouls * (100 + Get(tactical, "fouls", 0)),
        goal_probability |-> target * (90 + base.positive_effect) * (90 - base.penalty)]

\* A faulty CalculateMatchEffects: the opponent's negative_effect is taken
\* off a team's goal probability.
CalculateMatchEffects_NegativeApplied(home_tfs, away_tfs, home_tactic, away_tactic) ==
    LET h == TeamEffects("home", home_tfs, home_tactic)
        a == TeamEffects("away", away_tfs, away_tactic)
    IN [home |-> [h EXCEPT !.goal_probability = (@ \div 180) * (180 - a.negative_effect)],
        away |-> [a EXCEPT !.goal_probability = (@ \div 180) * (180 - h.negative_effect)]]

\* calculate_match_effects.
CalculateMatchEffects(home_tfs, away_tfs, home_tactic, away_tactic) ==
    [home |-> TeamEffects("home", home_tfs, home_tactic),
     away |-> TeamEffects("away", away_tfs, away_tactic)]

\* ------------------------------------------------------------------------
\* Calls of TacticalFitCalculator
\* ------------------------------------------------------------------------
CallIds == {1, 2}

\* The six tactics of _get_required_attributes.
BuiltInTactics == DOMAIN TacticTargets

\* A call of calculate_tactical_fit that has not run yet.
FitCall(team_attributes, tactic) ==
    [team_attributes |-> team_attributes, tactic |-> tactic,
     returned |-> FALSE, fit |-> 0]

\* calculate_tactical_fit runs on caller k's arguments and returns.
CallCalculateTacticalFit(k) ==
    /\ ~calc[k].returned
    /\ calc' = [calc EXCEPT ![k] =
            [@ EXCEPT !.returned = TRUE,
                      !.fit = CalculateTacticalFit(calc[k].team_attributes,
                                                   calc[k].tactic)]]
    /\ UNCHANGED <<msvars, stmvars, mevars, twvars, tfvars, clvars, cmvars>>

\* A call of calculate_match_effects that has not run yet.
EffectsCall(home_tfs, away_tfs, home_tactic, away_tactic) ==
    [home_tfs |-> home_tfs, away_tfs |-> away_tfs,
     home_tactic |-> home_tactic, away_tactic |-> away_tactic,
     returned |-> FALSE, home_effects |-> <<>>, away_effects |-> <<>>]

\* calculate_match_effects runs on caller k's arguments and returns the two
\* profiles.
CallCalculateMatchEffects(k) ==
    /\ ~calc[k].returned
    /\ LET eff == CalculateMatchEffects(calc[k].home_tfs, calc[k].away_tfs,
                                        calc[k].home_tactic, calc[k].away_tactic)
       IN calc' = [calc EXCEPT ![k] =
               [@ EXCEPT !.returned = TRUE, !.home_effects = eff.home,
                         !.away_effects = eff.away]]
    /\ UNCHANGED <<msvars, stmvars, mevars, twvars, tfvars, clvars, cmvars>>

\* Callers that call nothing.
CalcDefault == calc = [k \in CallIds |-> FitCall(NoAttributes, "tiki-taka")]

\* ------------------------------------------------------------------------
\* SimpleTacticalMatch
\* ------------------------------------------------------------------------
\* SimpleTacticalMatch.__init__.
STMConstruct(home_attributes, away_attributes, home_tactic, away_tactic) ==
    LET home_tfs == CalculateTacticalFit(home_attributes, home_tactic)
        away_tfs == CalculateTacticalFit(away_attributes, away_tactic)
        eff == CalculateMatchEffects(home_tfs, away_tfs, home_tactic, away_tactic)
    IN [home_tactic |-> home_tactic,
        away_tactic |-> away_tactic,
        home_attributes |-> home_attributes,
        away_attributes |-> away_attributes,
        home_tfs |-> home_tfs,
        away_tfs |-> away_tfs,
        home_effects |-> eff.home,
        away_effects |-> eff.away,
        current_score |-> ZeroScore,
        first_half_events |-> <<>>,
        second_half_events |-> <<>>]

\* A faulty UpdateTactic: the new tactic is given to both teams.
UpdateTactic_BothTeams(s, team, new_tactic) ==
    LET s1 == [s EXCEPT !.home_tactic = new_tactic,
                        !.home_tfs = CalculateTacticalFit(s.home_attributes, new_tactic),
                        !.away_tactic = new_tactic,
                        !.away_tfs = CalculateTacticalFit(s.away_attributes, new_tactic)]
        eff == CalculateMatchEffects(s1.home_tfs, s1.away_tfs, s1.home_tactic, s1.away_tactic)
    IN [s1 EXCEPT !.home_effects = eff.home, !.away_effects = eff.away]

\* update_tactic: any team other than "home" is the away team.
UpdateTactic(s, team, new_tactic) ==
    LET s1 == IF team = "home"
              THEN [s EXCEPT !.home_tactic = new_tactic,
                             !.home_tfs = CalculateTacticalFit(s.home_attributes, new_tactic)]
              ELSE [s EXCEPT !.away_tactic = new_tactic,
                             !.away_tfs = CalculateTacticalFit(s.away_attributes, new_tactic)]
        eff == CalculateMatchEffects(s1.home_tfs, s1.away_tfs, s1.home_tactic, s1.away_tactic)
    IN [s1 EXCEPT !.home_effects = eff.home, !.away_effects = eff.away]

\* _create_event.
CreateEvent(minute, team, etype, score) ==
    [minute |-> minute, team |-> team, type |-> etype, score |-> score]

\* The six tests of _generate_events_for_minute, in the order of the code.
EventTests ==
    << [team |-> "home", type |-> "goal", key |-> "goal_probability"],
       [team |-> "away", type |-> "goal", key |-> "goal_probability"],
       [team |-> "home", type |-> "yellow_card", key |-> "yellow_card_probability"],
       [team |-> "away", type |-> "yellow_card", key |-> "yellow_card_probability"],
       [team |-> "home", type |-> "red_card", key |-> "red_card_probability"],
       [team |-> "away", type |-> "red_card", key |-> "red_card_probability"] >>

\* The profile a test reads.
EffectsOf(s, team) == IF team = "home" THEN s.home_effects ELSE s.away_effects

\* Every test looks its key up whatever the earlier draws were, so a minute
\* raises KeyError exactly when a profile lacks a key that is read.
MinuteRaises(s) ==
    \E k \in DOMAIN EventTests : EventTests[k].key \notin DOMAIN EffectsOf(s, EventTests[k].team)

\* The outcomes of rng.random() < p, for p below 1.
RandomBelow(p) == IF p <= 0 THEN {FALSE} ELSE BOOLEAN

\* The event lists the tests from the k-th on can add for one minute.
RECURSIVE TestsFrom(_, _, _)
TestsFrom(k, minute, s) ==
    IF k > Len(EventTests) THEN {<<>>}
    ELSE LET t == EventTests[k]
             e == CreateEvent(minute, t.team, t.type, s.current_score)
         IN UNION {{(IF hit THEN <<e>> ELSE <<>>) \o r : r \in TestsFrom(k + 1, minute, s)} :
                      hit \in RandomBelow(EffectsOf(s, t.team)[t.key])}

\* The marker added to the last minute of a half.
MinuteMarker(minute, is_last_minute, s) ==
    IF is_last_minute /\ minute = HalfTimeMinute
    THEN <<CreateEvent(minute, "info", "half-time", s.current_score)>>
    ELSE IF is_last_minute /\ minute = FullTimeMinute
    THEN <<CreateEvent(minute, "info", "full-time", s.current_score)>>
    ELSE <<>>

\* _generate_events_for_minute.
GenerateEventsForMinute(minute, is_last_minute, s) ==
    {evs \o MinuteMarker(minute, is_last_minute, s) : evs \in TestsFrom(1, minute, s)}

\* _generate_first_half_events and _generate_second_half_events for the
\* minutes first .. final: either the KeyError of the first minute, or a
\* sorted event list. A test succeeds in the first or in the last minute of
\* the half only.
GenerateHalfEvents(first, final, s) ==
    IF MinuteRaises(s)
    THEN {[err |-> "KeyError", events |-> <<>>]}
    ELSE {[err |-> "", events |-> SortByMinute(a \o b)] :
            a \in GenerateEventsForMinute(first, FALSE, s),
            b \in GenerateEventsForMinute(final, TRUE, s)}

NoSGen ==
    [kind |-> "none", st |-> "none", err |-> "", idx |-> 1, current_minute |-> 0,
     current_score |-> ZeroScore]

NoSRecord ==
    [stream |-> "none", kind |-> "none", minute |-> 0, team |-> "", type |-> "",
     score |-> ZeroScore]

STMConsumerIdle == sgen.st \in {"none", "done", "failed", "closed"}

\* The consumer calls stream_first_half() on the SimpleTacticalMatch.
STMStartFirstHalf ==
    /\ STMConsumerIdle
    /\ sgen' = [NoSGen EXCEPT !.kind = "first", !.st = "created"]
    /\ UNCHANGED <<stm, slast, shist, msvars, mevars, twvars, tfvars, fcvars, clvars, cmvars>>

\* The consumer calls stream_second_half() on the SimpleTacticalMatch.
STMStartSecondHalf ==
    /\ STMConsumerIdle
    /\ sgen' = [NoSGen EXCEPT !.kind = "second", !.st = "created"]
    /\ UNCHANGED <<stm, slast, shist, msvars, mevars, twvars, tfvars, fcvars, clvars, cmvars>>

\* The consumer stops consuming the SimpleTacticalMatch stream.
STMCloseStream ==
    /\ sgen.st \in {"created", "suspended"}
    /\ sgen' = [NoSGen EXCEPT !.kind = sgen.kind, !.st = "closed"]
    /\ UNCHANGED <<stm, slast, shist, msvars, mevars, twvars, tfvars, fcvars, clvars, cmvars>>

\* The caller invokes update_tactic between two pulls.
CallUpdateTactic(team, new_tactic) ==
    /\ stm' = UpdateTactic(stm, team, new_tactic)
    /\ shist' = [shist EXCEPT !.tactic_updated = TRUE]
    /\ UNCHANGED <<sgen, slast, msvars, mevars, twvars, tfvars, fcvars, clvars, cmvars>>

\* The streaming loop of either half from its i-th event on, with the frame's
\* current_minute and current_score, run to the next yield or to the end; s
\* is the object as the code before the loop left it and field names the
\* event list the loop runs over.
STMAdvance(s, field, i, cur, score, g) ==
    IF i > Len(s[field])
    THEN /\ sgen' = [NoSGen EXCEPT !.kind = g.kind, !.st = "done"]
         /\ stm' = s
         /\ UNCHANGED slast
    ELSE IF cur < s[field][i].minute
    THEN /\ sgen' = [g EXCEPT !.st = "suspended", !.idx = i, !.current_minute = cur + 1,
                              !.current_score = score]
         /\ slast' = [stream |-> g.kind, kind |-> "minute_update", minute |-> cur + 1,
                      team |-> "", type |-> "", score |-> score]
         /\ stm' = s
    ELSE LET ev == s[field][i]
             newscore == ScoreAfter(score, ev)
         IN /\ stm' = [s EXCEPT !.current_score = ScoreAfter(@, ev),
                                ![field][i].score = newscore]
            /\ sgen' = [g EXCEPT !.st = "suspended", !.idx = i + 1, !.current_minute = cur,
                                 !.current_score = newscore]
            /\ slast' = [stream |-> g.kind, kind |-> "event", minute |-> ev.minute,
                         team |-> ev.team, type |-> ev.type, score |-> newscore]

\* One __anext__ on a SimpleTacticalMatch.stream_first_half generator: the
\* first one generates the half if the list is empty and yields the
\* match_setup record.
STMPullFirstHalf ==
    /\ sgen.kind = "first"
    /\ sgen.st \in {"created", "suspended"}
    /\ shist' = [shist EXCEPT !.first_pulled = TRUE]
    /\ IF sgen.st = "created"
       THEN \E r \in (IF stm.first_half_events = <<>>
                      THEN GenerateHalfEvents(1, HalfTimeMinute, stm)
                      ELSE {[err |-> "", events |-> stm.first_half_events]}) :
               IF r.err # ""
               THEN /\ sgen' = [NoSGen EXCEPT !.kind = "first", !.st = "failed", !.err = r.err]
                    /\ UNCHANGED <<stm, slast>>
               ELSE /\ stm' = [stm EXCEPT !.first_half_events = r.events]
                    /\ slast' = [NoSRecord EXCEPT !.stream = "first", !.kind = "match_setup"]
                    /\ sgen' = [sgen EXCEPT !.st = "suspended"]
       ELSE STMAdvance(stm, "first_half_events", sgen.idx, sgen.current_minute,
                       sgen.current_score, sgen)
    /\ UNCHANGED <<msvars, mevars, twvars, tfvars, fcvars, clvars, cmvars>>

\* One __anext__ on a SimpleTacticalMatch.stream_second_half generator: the
\* first one generates the half if the list is empty and runs to the first
\* yield of the loop.
STMPullSecondHalf ==
    /\ sgen.kind = "second"
    /\ sgen.st \in {"created", "suspended"}
    /\ IF sgen.st = "created"
       THEN \E r \in (IF stm.second_half_events = <<>>
                      THEN GenerateHalfEvents(HalfTimeMinute + 1, FullTimeMinute, stm)
                      ELSE {[err |-> "", events |-> stm.second_half_events]}) :
               IF r.err # ""
               THEN /\ sgen' = [NoSGen EXCEPT !.kind = "second", !.st = "failed", !.err = r.err]
                    /\ UNCHANGED <<stm, slast>>
               ELSE STMAdvance([stm EXCEPT !.second_half_events = r.events],
                               "second_half_events", 1, HalfTimeMinute,
                               stm.current_score, sgen)
       ELSE STMAdvance(stm, "second_half_events", sgen.idx, sgen.current_minute,
                       sgen.current_score, sgen)
    /\ UNCHANGED shist
    /\ UNCHANGED <<msvars, mevars, twvars, tfvars, fcvars, clvars, cmvars>>

\* Tactic names given to the constructor and to update_tactic: two built-in
\* ones, one of them in another case, and one that is not built in.
STMTactics == {"Tiki-Taka", "park-the-bus", "long-ball"}

\* Attribute maps given to the constructor: the two of the module's own
\* example, and an empty one.
STMAttributes ==
    {[passing |-> 75, dribbling |-> 70, pace |-> 65],
     [pace |-> 75, defending |-> 70, physicality |-> 70],
     NoAttributes}

\* A SimpleTacticalMatch after construction.
STMInitWith(ha, aa, ht, at) ==
    /\ stm = STMConstruct(ha, aa, ht, at)
    /\ sgen = NoSGen
    /\ slast = NoSRecord
    /\ shist = [first_pulled |-> FALSE, tactic_updated |-> FALSE]

\* ------------------------------------------------------------------------
\* MatchEngineService (src/server/services/match_engine.py)
\* ------------------------------------------------------------------------
\* The final clamps of simulate_team on the sampled quantities: raw.shots is
\* base_shots * (1 + total_shot_effect), raw.accuracy and raw.goal_rate are
\* percentages, raw.yellow and raw.red the truncated normal samples.
SimulateTeam(raw) ==
    LET shots == Max(1, raw.shots)
        target == Min(shots, Max(0, (shots * Max(10, raw.accuracy)) \div 100))
        goals == (target * Min(90, Max(5, raw.goal_rate))) \div 100
    IN [shots |-> shots, target |-> target, goals |-> goals,
        yellow |-> Max(0, raw.yellow), red |-> Max(0, raw.red)]

\* n copies of the event string s.
Copies(s, n) == [i \in 1 .. n |-> s]

\* The events list of simulate_half: per event type, the home entries and
\* then the away entries.
HalfEventList(home, away) ==
    Copies("Shots_Home", home.shots) \o Copies("Shots_Away", away.shots) \o
    Copies("Target_Home", home.target) \o Copies("Target_Away", away.target) \o
    Copies("Goals_Home", home.goals) \o Copies("Goals_Away", away.goals) \o
    Copies("Yellow_Home", home.yellow) \o Copies("Yellow_Away", away.yellow) \o
    Copies("Red_Home", home.red) \o Copies("Red_Away", away.red)

StartMinute(half) == IF half = 2 THEN HalfTimeMinute + 1 ELSE 1
EndMinute(half) == IF half = 2 THEN FullTimeMinute ELSE HalfTimeMinute

\* Outcomes of random.randint(start_minute, end_minute - 1) that are drawn:
\* the two ends of the range.
\* A faulty PlacementSamples: random.randint(start_minute, end_minute), the
\* last minute of the half included.
PlacementSamples_Inclusive(half) == {StartMinute(half), EndMinute(half)}

PlacementSamples(half) == {StartMinute(half), EndMinute(half) - 1}

\* The dictionary simulate_half starts from: every minute of the half, empty.
EmptyEventDict(half) == [m \in StartMinute(half) .. EndMinute(half) |-> <<>>]

\* event_mapping of generate_simple_events and create_event_object: the Red_*
\* strings are not in it.
EventMapping ==
    ("Shots_Home" :> [type |-> "shot", team |-> "home"]) @@
    ("Shots_Away" :> [type |-> "shot", team |-> "away"]) @@
    ("Target_Home" :> [type |-> "target", team |-> "home"]) @@
    ("Target_Away" :> [type |-> "target", team |-> "away"]) @@
    ("Goals_Home" :> [type |-> "goal", team |-> "home"]) @@
    ("Goals_Away" :> [type |-> "goal", team |-> "away"]) @@
    ("Yellow_Home" :> [type |-> "yellow_card", team |-> "home"]) @@
    ("Yellow_Away" :> [type |-> "yellow_card", team |-> "away"])

\* The stats generate_simple_events starts from when it is given no context.
ZeroEngineStats ==
    [t \in Teams |-> [shots |-> 0, shotsOnTarget |-> 0, yellowCards |-> 0, redCards |-> 0]]

\* The stats update of one mapped event.
EngineStatsAfter(st, info) ==
    IF info.type = "shot" THEN [st EXCEPT ![info.team].shots = @ + 1]
    ELSE IF info.type = "target" THEN [st EXCEPT ![info.team].shotsOnTarget = @ + 1]
    ELSE IF info.type = "yellow_card" THEN [st EXCEPT ![info.team].yellowCards = @ + 1]
    ELSE IF info.type = "red_card" THEN [st EXCEPT ![info.team].redCards = @ + 1]
    ELSE st

\* The score update of one mapped event.
EngineScoreAfter(score, info) ==
    IF info.type = "goal" THEN [score EXCEPT ![info.team] = @ + 1] ELSE score

\* An element of the returned list: an event object or a minute_update.
EngineRecord(rtype, minute, team, etype, score, st) ==
    [type |-> rtype, minute |-> minute, team |-> team, etype |-> etype,
     score |-> score, stats |-> st]

\* The inner loop of generate_simple_events over the event strings of one
\* minute, from the k-th on: the objects appended and the score and stats
\* after them. A string that is not in event_mapping adds nothing.
RECURSIVE MinuteObjects(_, _, _, _, _, _)
MinuteObjects(strs, k, minute, score, st, out) ==
    IF k > Len(strs) THEN [objs |-> out, score |-> score, stats |-> st]
    ELSE IF strs[k] \notin DOMAIN EventMapping
    THEN MinuteObjects(strs, k + 1, minute, score, st, out)
    ELSE LET info == EventMapping[strs[k]]
             st1 == EngineStatsAfter(st, info)
             score1 == EngineScoreAfter(score, info)
         IN MinuteObjects(strs, k + 1, minute, score1, st1,
                Append(out, EngineRecord("event", minute, info.team, info.type, score1, st1)))

\* A faulty SystemMarker: no marker is added at minute 45 or 90.
SystemMarker_Omitted(minute, score, st) == <<>>

\* The marker generate_simple_events adds after the minute_update of minute
\* 45 or 90.
SystemMarker(minute, score, st) ==
    IF minute = HalfTimeMinute
    THEN <<EngineRecord("event", minute, "system", "half-time", score, st)>>
    ELSE IF minute = FullTimeMinute
    THEN <<EngineRecord("event", minute, "system", "full-time", score, st)>>
    ELSE <<>>

\* simulate_half has sampled both teams; nothing is placed yet.
EngineInitWith(half, context_set, home, away) ==
    engine = [half |-> half,
              context_set |-> context_set,
              phase |-> "placing",
              pending |-> HalfEventList(home, away),
              event_dict |-> EmptyEventDict(half),
              minute |-> StartMinute(half),
              current_score |-> ZeroScore,
              stats |-> ZeroEngineStats,
              current_batch |-> <<>>,
              events_json |-> <<>>,
              err |-> ""]

\* One iteration of the placement loop of simulate_half.
PlaceEvent ==
    /\ engine.phase = "placing"
    /\ engine.pending # <<>>
    /\ \E m \in PlacementSamples(engine.half) :
          engine' = [engine EXCEPT !.event_dict[m] = Append(@, Head(engine.pending)),
                                   !.pending = Tail(@)]
    /\ UNCHANGED <<msvars, stmvars, twvars, tfvars, fcvars, clvars, cmvars>>

\* simulate_half returns its dictionary and generate_simple_events is called
\* on it without a context.
CallGenerateSimpleEvents ==
    /\ engine.phase = "placing"
    /\ engine.pending = <<>>
    /\ engine' = [engine EXCEPT !.phase = "generating"]
    /\ UNCHANGED <<msvars, stmvars, twvars, tfvars, fcvars, clvars, cmvars>>

\* One iteration of the minute loop of generate_simple_events: the minute's
\* event objects, its minute_update, the marker, and the flush of a batch
\* that is full or ends the half. add_events raises ValueError when no match
\* context was set.
ProcessMinute ==
    /\ engine.phase = "generating"
    /\ LET minute == engine.minute
           r == MinuteObjects(engine.event_dict[minute], 1, minute,
                              engine.current_score, engine.stats, <<>>)
           batch == engine.current_batch \o r.objs \o
                    <<EngineRecord("minute_update", minute, "", "", r.score, r.stats)>> \o
                    SystemMarker(minute, r.score, r.stats)
           is_last == minute = EndMinute(engine.half)
           flush == IF Len(batch) >= BatchSize THEN TRUE ELSE is_last
           e1 == [engine EXCEPT !.current_score = r.score, !.stats = r.stats]
       IN IF flush /\ ~engine.context_set
          THEN engine' = [e1 EXCEPT !.current_batch = batch, !.phase = "failed",
                                    !.err = "ValueError"]
          ELSE engine' = [e1 EXCEPT
                            !.current_batch = IF flush THEN <<>> ELSE batch,
                            !.events_json = IF flush THEN @ \o batch ELSE @,
                            !.minute = IF is_last THEN @ ELSE @ + 1,
                            !.phase = IF is_last THEN "returned" ELSE @]
    /\ UNCHANGED <<msvars, stmvars, twvars, tfvars, fcvars, clvars, cmvars>>

\* Sampled quantities of simulate_team: a team with one shot that is on
\* target, and a team with two shots on target, a goal and both cards.
TeamSamples ==
    {[shots |-> 0, accuracy |-> 100, goal_rate |-> 40, yellow |-> -1, red |-> 0],
     [shots |-> 2, accuracy |-> 150, goal_rate |-> 50, yellow |-> 1, red |-> 1]}

\* ------------------------------------------------------------------------
\* Seeded sessions: random.Random(seed) and np.random.default_rng(seed)
\* ------------------------------------------------------------------------
TwinIds == {1, 2}

\* The n-th element (from 0) of a finite set, in a fixed order.
RECURSIVE Nth(_, _)
Nth(S, n) ==
    LET x == CHOOSE y \in S : TRUE
    IN IF n = 0 THEN x ELSE Nth(S \ {x}, n - 1)

\* The position in the generators' streams after `calls` draws from seed.
Mix(rng) == (rng.seed + 1) * 37 + rng.calls * 11

\* A faulty SeededChoice: the draw comes from the process-wide generator of
\* the random module, whose state the seed does not fix.
SeededChoice_ModuleLevel(rng, S) == S

\* The outcomes of a draw from self._rng / self._np_rng: the generators are
\* created from the seed in __init__, so the seed and the number of draws
\* made so far fix the outcome.
SeededChoice(rng, S) == {Nth(S, Mix(rng) % Cardinality(S))}

\* The state of one seeded session and of its consumer.
TwinSession(seed) ==
    [rng |-> [seed |-> seed, calls |-> 0],
     events |-> <<>>, generated |-> FALSE, is_half_time |-> FALSE,
     current_score |-> ZeroScore, stats |-> InitializeStats,
     phase |-> "new", list |-> <<>>, idx |-> 1, current_minute |-> 0,
     log |-> <<>>]

TwinInitWith(seed) == twin = [k \in TwinIds |-> TwinSession(seed)]

NextCall(rng) == [rng EXCEPT !.calls = @ + 1]

\* The consumer of session k calls stream_first_half() on the new session,
\* or stream_second_half() after the first half, and pulls once: the chunk
\* is generated from the session's generators.
TwinStartHalf(k) ==
    LET s == twin[k]
        isFirst == s.phase = "new"
        start == IF isFirst THEN 0 ELSE HalfTimeMinute
        end == IF isFirst THEN HalfTimeMinute ELSE FullTimeMinute
    IN /\ s.phase \in {"new", "half-time"}
       /\ isFirst => ~s.generated
       /\ ~isFirst => s.is_half_time
       /\ \E d \in SeededChoice(s.rng, DrawsOf(start, end)) :
             IF DrawsRaise(d)
             THEN twin' = [twin EXCEPT ![k] =
                     [s EXCEPT !.phase = "failed", !.rng = NextCall(@)]]
             ELSE LET c == GenerateTimelineChunk(start, end, d, s.events,
                                                 s.current_score, params.debug_mode)
                  IN twin' = [twin EXCEPT ![k] =
                        [s EXCEPT !.phase = IF isFirst THEN "first" ELSE "second",
                                  !.rng = NextCall(@),
                                  !.events = @ \o c.events,
                                  !.generated = TRUE,
                                  !.current_score = c.score,
                                  !.list = c.events, !.idx = 1,
                                  !.current_minute = start]]
       /\ UNCHANGED <<msvars, stmvars, mevars, tfvars, fcvars, clvars, cmvars>>

\* One further __anext__ of session k's generator: a minute update, an
\* event, or the end of the half.
TwinPull(k) ==
    LET s == twin[k]
        isFirst == s.phase = "first"
        g == [sid |-> IF isFirst THEN 1 ELSE 2, emitted |-> Len(s.log),
              kind |-> s.phase]
        fin == IF s.idx > Len(s.list) THEN TRUE
               ELSE (isFirst /\ FirstHalfBreak(s.list[s.idx]))
    IN /\ s.phase \in {"first", "second"}
       /\ IF fin
          THEN twin' = [twin EXCEPT ![k] =
                  [s EXCEPT !.phase = IF isFirst THEN "half-time" ELSE "full-time",
                            !.is_half_time = HalfTimeAfter(isFirst, @)]]
          ELSE IF NeedsTick(s.current_minute, s.list[s.idx])
          THEN twin' = [twin EXCEPT ![k] =
                  [s EXCEPT !.current_minute = @ + 1,
                            !.log = Append(@, MinuteUpdate(g, s.current_minute + 1,
                                                           s.current_score, s.stats))]]
          ELSE \E jit \in SeededChoice(s.rng, Jitter) :
                  LET u == UpdateStats(s.stats, s.current_score, s.list[s.idx],
                                       jit, params.p)
                  IN twin' = [twin EXCEPT ![k] =
                        [s EXCEPT !.stats = u.stats, !.current_score = u.score,
                                  !.rng = NextCall(@), !.idx = @ + 1,
                                  !.log = Append(@, EventRecord(g, s.list[s.idx],
                                                                u.stats))]]
       /\ UNCHANGED <<msvars, stmvars, mevars, tfvars, fcvars, clvars, cmvars>>


\* ------------------------------------------------------------------------
\* Sessions of one process: class attributes, instance attributes, objects
\* ------------------------------------------------------------------------
ProcIds == {1, 2}

\* The names _adjust_parameters_from_attributes assigns (the yellow lambdas
\* and the red probability are never assigned).
AdjustedNames ==
    DOMAIN ClassDefaults \
        {"YELLOW_LAMBDA_HOME", "YELLOW_LAMBDA_AWAY", "RED_PROB_AFTER_YELLOW"}

\* self.X: the instance dictionary first, then the class.
GetAttr(cls, dict, name) == IF name \in DOMAIN dict THEN dict[name] ELSE cls[name]

\* The values _adjust_parameters_from_attributes assigns on a new instance:
\* `self.GOALS_LAMBDA_HOME *= home_factor` reads the attribute through the
\* class, every other value is computed from the arguments.
AdjustedValues(cls, a) ==
    LET adj == AdjustParametersFromAttributes(a.home_attributes, a.away_attributes,
                                              a.home_tactic, a.away_tactic)
        home_factor100 == Get(a.home_attributes, "shooting", 50)
                          + Get(a.home_attributes, "passing", 50)
        away_factor100 == Get(a.away_attributes, "shooting", 50)
                          + Get(a.away_attributes, "passing", 50)
    IN [n \in AdjustedNames |->
          IF n = "GOALS_LAMBDA_HOME"
          THEN (GetAttr(cls, NoAttributes, n) * home_factor100) \div 100
          ELSE IF n = "GOALS_LAMBDA_AWAY"
          THEN (GetAttr(cls, NoAttributes, n) * away_factor100) \div 100
          ELSE adj[n]]

\* A faulty AdjustInstance: the assignments are made on MatchService, the
\* class, in place of self.
AdjustInstance_OnClass(cls, a) ==
    [cls |-> [n \in DOMAIN cls |->
                IF n \in AdjustedNames THEN AdjustedValues(cls, a)[n] ELSE cls[n]],
     dict |-> NoAttributes]

\* _adjust_parameters_from_attributes: every `self.X = ...` and `self.X *= ...`
\* binds X in the instance dictionary; the class keeps its attributes.
AdjustInstance(cls, a) == [cls |-> cls, dict |-> AdjustedValues(cls, a)]

\* A slot no session has been constructed in.
NoSession ==
    [made |-> FALSE,
     args |-> CtorArgs(NoAttributes, NoAttributes, "Balanced", "Balanced", <<>>, FALSE),
     dict |-> NoAttributes,
     rng |-> [seed |-> 0, calls |-> 0],
     events |-> 0, current_score |-> 0, stats |-> 0,
     generated |-> FALSE, is_half_time |-> FALSE,
     phase |-> "none", list |-> <<>>, idx |-> 1, current_minute |-> 0]

\* The process before any session is constructed: the class attributes and
\* an empty heap of session objects.
ProcInit ==
    proc = [cls |-> ClassDefaults, heap |-> <<>>,
            inst |-> [k \in ProcIds |-> NoSession]]

\* The parameters session k reads as self.X.
SessionParams(k) ==
    [n \in DOMAIN ClassDefaults |-> GetAttr(proc.cls, proc.inst[k].dict, n)]

\* MatchService(**a, seed=MaxSeed) in slot k: the parameters are bound, then
\* `self._events = []`, `self._current_score = {...}` and
\* `self._stats = self._initialize_stats()` create three new objects.
ProcConstruct(k, a) ==
    LET r == IF a.backend # <<>>
             THEN [cls |-> proc.cls, dict |-> ApplyStatsBackend(a.backend[1])]
             ELSE AdjustInstance(proc.cls, a)
        n == Len(proc.heap)
    IN /\ ~proc.inst[k].made
       /\ proc' = [cls |-> r.cls,
                   heap |-> proc.heap \o << <<>>, ZeroScore, InitializeStats >>,
                   inst |-> [proc.inst EXCEPT ![k] =
                       [made |-> TRUE, args |-> a, dict |-> r.dict,
                        rng |-> [seed |-> MaxSeed, calls |-> 0],
                        events |-> n + 1, current_score |-> n + 2, stats |-> n + 3,
                        generated |-> FALSE, is_half_time |-> FALSE,
                        phase |-> "new", list |-> <<>>, idx |-> 1,
                        current_minute |-> 0]]]
       /\ UNCHANGED <<msvars, stmvars, mevars, twvars, tfvars, fcvars, cmvars>>

\* The consumer of session k calls stream_first_half() on the new session,
\* or stream_second_half() after the first half, and pulls once: the chunk
\* is appended to the session's event list and counted in its score, both
\* in place.
ProcStartHalf(k) ==
    LET s == proc.inst[k]
        isFirst == s.phase = "new"
        start == IF isFirst THEN 0 ELSE HalfTimeMinute
        end == IF isFirst THEN HalfTimeMinute ELSE FullTimeMinute
    IN /\ s.made
       /\ s.phase \in {"new", "half-time"}
       /\ isFirst => ~s.generated
       /\ ~isFirst => s.is_half_time
       /\ \E d \in SeededChoice(s.rng, DrawsOf(start, end)) :
             IF DrawsRaise(d)
             THEN proc' = [proc EXCEPT !.inst[k] =
                     [s EXCEPT !.phase = "failed", !.rng = NextCall(@)]]
             ELSE LET c == GenerateTimelineChunk(start, end, d, proc.heap[s.events],
                                                 proc.heap[s.current_score],
                                                 s.args.debug_mode)
                  IN proc' = [proc EXCEPT
                        !.heap = [@ EXCEPT ![s.events] = @ \o c.events,
                                           ![s.current_score] = c.score],
                        !.inst[k] =
                            [s EXCEPT !.phase = IF isFirst THEN "first" ELSE "second",
                                      !.rng = NextCall(@),
                                      !.generated = TRUE,
                                      !.list = c.events, !.idx = 1,
                                      !.current_minute = start]]
       /\ UNCHANGED <<msvars, stmvars, mevars, twvars, tfvars, fcvars, cmvars>>

\* One further __anext__ of session k's generator: a minute update, an
\* event (_update_stats writes the session's stats and score objects), or
\* the end of the half.
ProcPull(k) ==
    LET s == proc.inst[k]
        isFirst == s.phase = "first"
        fin == IF s.idx > Len(s.list) THEN TRUE
               ELSE (isFirst /\ FirstHalfBreak(s.list[s.idx]))
    IN /\ s.made
       /\ s.phase \in {"first", "second"}
       /\ IF fin
          THEN proc' = [proc EXCEPT !.inst[k] =
                  [s EXCEPT !.phase = IF isFirst THEN "half-time" ELSE "full-time",
                            !.is_half_time = HalfTimeAfter(isFirst, @)]]
          ELSE IF NeedsTick(s.current_minute, s.list[s.idx])
          THEN proc' = [proc EXCEPT !.inst[k] = [s EXCEPT !.current_minute = @ + 1]]
          ELSE \E jit \in SeededChoice(s.rng, Jitter) :
                  LET u == UpdateStats(proc.heap[s.stats], proc.heap[s.current_score],
                                       s.list[s.idx], jit, SessionParams(k))
                  IN proc' = [proc EXCEPT
                        !.heap = [@ EXCEPT ![s.stats] = u.stats,
                                           ![s.current_score] = u.score],
                        !.inst[k] = [s EXCEPT !.rng = NextCall(@), !.idx = @ + 1]]
       /\ UNCHANGED <<msvars, stmvars, mevars, twvars, tfvars, fcvars, cmvars>>

\* ------------------------------------------------------------------------
\* CommentaryService: batches of events and the LLM collaborator
\* ------------------------------------------------------------------------
\* The records the callers put into batches: three events, named by their
\* event type, and a minute_update.
BatchEvents ==
    {[type |-> "goal", team |-> "home", minute |-> 10],
     [type |-> "yellow_card", team |-> "away", minute |-> 20],
     [type |-> "substitution", team |-> "home", minute |-> 30],
     [type |-> "minute_update", team |-> "", minute |-> 10]}

\* event["type"] == "event"
IsEventRecord(r) == r.type # "minute_update"

\* The batches of add_events: up to MaxBatch events, repetitions included.
Batches == UNION {[1 .. n -> BatchEvents] : n \in 1 .. MaxBatch}

\* What the chat completion does for a request about n events: the call
\* raises, the content is not JSON, or the content is an array of m
\* well-formed entries, m from 0 to n.
LLMOutcomes(n) ==
    {[kind |-> "raises", n |-> 0], [kind |-> "malformed", n |-> 0]}
        \cup {[kind |-> "entries", n |-> m] : m \in 0 .. n}

\* f"{ec.event_type}_{ec.team}_{ec.minute}"
CacheKey(ec) == <<ec.type, ec.team, ec.minute>>

\* The event types with an entry in formal_descriptions.
FormalDescribed ==
    {"goal", "shot", "target", "yellow_card", "red_card", "half-time", "full-time"}

\* _get_default_commentary: the formal description of the pair, "" for a
\* type without an entry.  A commentary is named by the origin of its
\* formal description: "llm", "default", "" or "None".
GetDefaultCommentary(ec) == IF ec.type \in FormalDescribed THEN "default" ELSE ""

\* _generate_batch_commentary: cached commentaries are reused; when an event
\* is not cached the LLM is asked once.  Its entries are zipped with the
\* uncached indices, so entries beyond the events are dropped and events
\* beyond the entries keep None; any exception replaces the commentary of
\* every uncached event by the default one.  What was written is cached.
GenerateBatchCommentary(cache, ecs, out) ==
    LET n == Len(ecs)
        hit(i) == CacheKey(ecs[i]) \in DOMAIN cache
        uncached_indices == SelectSeq([i \in 1 .. n |-> i], LAMBDA i : ~hit(i))
        fallback == out.kind # "entries"
        zipped == {uncached_indices[j] :
                      j \in 1 .. Min(out.n, Len(uncached_indices))}
        written == IF fallback
                   THEN {uncached_indices[j] : j \in 1 .. Len(uncached_indices)}
                   ELSE zipped
        commentaries ==
            [i \in 1 .. n |->
                IF hit(i) THEN cache[CacheKey(ecs[i])]
                ELSE IF fallback THEN GetDefaultCommentary(ecs[i])
                ELSE IF i \in zipped THEN "llm"
                ELSE "None"]
        keys == {CacheKey(ecs[i]) : i \in written}
    IN [commentaries |-> commentaries,
        cache |-> [k \in DOMAIN cache \cup keys |->
                      IF k \in keys
                      THEN commentaries[CHOOSE i \in written : CacheKey(ecs[i]) = k]
                      ELSE cache[k]]]

\* A faulty WindowAppend: a deque without maxlen.
WindowAppend_Unbounded(w, ecs) == w \o ecs

\* The context window: a deque of at most window_size event contexts.
WindowAppend(w, ecs) ==
    LET all == w \o ecs
    IN IF Len(all) <= WindowSize THEN all
       ELSE SubSeq(all, Len(all) - WindowSize + 1, Len(all))

\* A CommentaryService(window_size=WindowSize, use_llm=u, use_tts=False)
\* before set_match_context.
CommentaryInitWith(u) ==
    cs = [match_context |-> FALSE, use_llm |-> u, cache |-> <<>>,
          context_window |-> <<>>, status |-> "idle", batch |-> <<>>,
          descriptions |-> <<>>, was_reset |-> FALSE]

\* set_match_context
CallSetMatchContext ==
    /\ cs' = [cs EXCEPT !.match_context = TRUE]
    /\ UNCHANGED <<msvars, stmvars, mevars, twvars, tfvars, fcvars, clvars>>

\* add_events(batch) on a service c that has its match context: the
\* contexts of the records of type 'event' enter the window (the others are
\* skipped and left as they are), the commentaries are produced and each
\* event gets the formal part of its pair as event_description.  Unpacking a
\* commentary that is None raises TypeError out of add_events, after the
\* events before it were described.  descriptions[i] is what was written on
\* batch[i], "missing" when nothing was.
AddEventsWithContext(c, batch, out) ==
    LET at == SelectSeq([i \in 1 .. Len(batch) |-> i],
                        LAMBDA i : IsEventRecord(batch[i]))
        ecs == [j \in 1 .. Len(at) |-> batch[at[j]]]
        r == IF ecs = <<>>
             THEN [commentaries |-> <<>>, cache |-> c.cache]
             ELSE IF c.use_llm
             THEN GenerateBatchCommentary(c.cache, ecs, out)
             ELSE [commentaries |-> [j \in 1 .. Len(ecs) |->
                                        GetDefaultCommentary(ecs[j])],
                   cache |-> c.cache]
        none == {j \in 1 .. Len(ecs) : r.commentaries[j] = "None"}
        stop == IF none = {} THEN Len(ecs) + 1
                ELSE CHOOSE j \in none : \A k \in none : j <= k
    IN [c EXCEPT
          !.status = IF none = {} THEN "returned" ELSE "TypeError",
          !.batch = batch,
          !.cache = r.cache,
          !.context_window = WindowAppend(@, ecs),
          !.descriptions =
              [i \in 1 .. Len(batch) |->
                  IF \E j \in 1 .. Len(at) : at[j] = i /\ j < stop
                  THEN r.commentaries[CHOOSE j \in 1 .. Len(at) : at[j] = i]
                  ELSE "missing"]]

\* A faulty AddEvents: no check of the match context.
AddEvents_Unchecked(c, batch, out) == AddEventsWithContext(c, batch, out)

\* add_events(batch): ValueError before anything else when no match context
\* is set.
AddEvents(c, batch, out) ==
    IF ~c.match_context
    THEN [c EXCEPT !.status = "ValueError", !.batch = batch,
                   !.descriptions = [i \in 1 .. Len(batch) |-> "missing"]]
    ELSE AddEventsWithContext(c, batch, out)

CallAddEvents(batch, out) ==
    /\ cs' = AddEvents(cs, batch, out)
    /\ UNCHANGED <<msvars, stmvars, mevars, twvars, tfvars, fcvars, clvars>>

\* reset(): the window and the cache are cleared and the match context is
\* dropped.  status, batch and descriptions record the last add_events call
\* since construction or reset.
CallReset ==
    /\ cs' = [cs EXCEPT !.context_window = <<>>, !.match_context = FALSE,
                        !.cache = <<>>, !.was_reset = TRUE,
                        !.status = "idle", !.batch = <<>>,
                        !.descriptions = <<>>]
    /\ UNCHANGED <<msvars, stmvars, mevars, twvars, tfvars, fcvars, clvars>>

\* ------------------------------------------------------------------------
\* Specifications
\* ------------------------------------------------------------------------
\* streams: generators created so far; goals: goal events emitted so far, per
\* team; first_done / second_done: a stream_first_half / stream_second_half
\* generator has run to its end; half_time_emitted: a half-time marker has
\* been emitted; last_tick: the minute of the latest minute_update of the
\* current generator (0 when it has emitted none).
NoHistory ==
    [streams |-> 0, goals |-> ZeroScore, first_done |-> FALSE, second_done |-> FALSE,
     half_time_emitted |-> FALSE, last_tick |-> 0,
     yellows |-> [t \in Teams |-> {}]]

\* The state after MatchService.__init__(args).
InitWith(args) ==
    /\ params = ConstructParams(args)
    /\ events = <<>>
    /\ generated = FALSE
    /\ is_half_time = FALSE
    /\ current_score = ZeroScore
    /\ stats = InitializeStats
    /\ gen = NoGen
    /\ last = NoRecord
    /\ hist = NoHistory

\* A session built with no attributes (every rating reads as 50) and no
\* tactics ("Balanced"): goals and cards for both teams.
DefaultSession == CtorArgs(NoAttributes, NoAttributes, "Balanced", "Balanced", <<>>, FALSE)

\* A session whose home team shoots far above the nominal range and whose
\* away team cannot pass: home possession 100 and more configured shots on
\* target than shots.
LopsidedSession ==
    CtorArgs([shooting |-> 150, passing |-> 50], [shooting |-> 50, passing |-> 0],
             "Balanced", "Balanced", <<>>, FALSE)

\* A session in debug mode: the fixed timeline.
DebugSession == CtorArgs(NoAttributes, NoAttributes, "Balanced", "Balanced", <<>>, TRUE)

\* A session on the stats backend of a league without goals and cards.
QuietSession ==
    CtorArgs(NoAttributes, NoAttributes, "Balanced", "Balanced", <<QuietBackend>>, FALSE)

Sessions == {DefaultSession, LopsidedSession, DebugSession, QuietSession}

\* A SimpleTacticalMatch nobody uses stands beside the MatchService session.
STMDefault == STMInitWith(NoAttributes, NoAttributes, "Tiki-Taka", "park-the-bus")

\* A MatchEngineService run nobody drives stands beside the sessions.
\* Two seeded sessions nobody drives stand beside the others.
TwinDefault == TwinInitWith(0)

\* A call of _calculate_team_effects nobody makes stands beside the others.
TeamEffectsDefault == tfc = TeamEffectsCall(0)

\* A process in which no further session is constructed.
ProcDefault == ProcInit

\* A CommentaryService nobody calls.
CommentaryDefault == CommentaryInitWith(TRUE)

EngineDefault ==
    EngineInitWith(1, TRUE, SimulateTeam(CHOOSE r \in TeamSamples : r.shots = 0),
                   SimulateTeam(CHOOSE r \in TeamSamples : r.shots = 0))

Init == STMDefault /\ EngineDefault /\ TwinDefault /\ TeamEffectsDefault /\ \E args \in Sessions : CalcDefault /\ ProcDefault /\ CommentaryDefault /\ InitWith(args)

Next ==
    \/ StartFirstHalf(MaxStreams)
    \/ StartSecondHalf(MaxStreams)
    \/ PullFirstHalf
    \/ PullSecondHalf
    \/ CloseStream

\* A consumer that creates at most MaxStreams generators on a session with
\* goals and cards.
Spec == Init /\ [][Next]_vars

\* A SimpleTacticalMatch built from sampled attributes and tactics, beside an
\* unused MatchService session.
InitSTM ==
    /\ EngineDefault
    /\ TwinDefault
    /\ TeamEffectsDefault
    /\ CalcDefault /\ ProcDefault /\ CommentaryDefault /\ InitWith(DefaultSession)
    /\ \E ha \in STMAttributes, aa \in STMAttributes, ht \in STMTactics, at \in STMTactics :
          STMInitWith(ha, aa, ht, at)

NextSTM ==
    \/ STMStartFirstHalf
    \/ STMStartSecondHalf
    \/ STMPullFirstHalf
    \/ STMPullSecondHalf
    \/ STMCloseStream
    \/ \E team \in Teams, t \in STMTactics : CallUpdateTactic(team, t)

\* Consumers of a SimpleTacticalMatch that may change tactics at any time.
SpecSTM == InitSTM /\ [][NextSTM]_vars

\* A consumer that streams halves repeatedly, up to MaxReplayStreams
\* generators, on a session in debug mode.
InitReplay == STMDefault /\ EngineDefault /\ TwinDefault /\ TeamEffectsDefault /\ CalcDefault /\ ProcDefault /\ CommentaryDefault /\ InitWith(DebugSession)

NextReplay ==
    \/ StartFirstHalf(MaxReplayStreams)
    \/ StartSecondHalf(MaxReplayStreams)
    \/ PullFirstHalf
    \/ PullSecondHalf
    \/ CloseStream

SpecReplay == InitReplay /\ [][NextReplay]_vars

\* Two sessions built with the same seed and the default parameters, each
\* consumed half after half by its own consumer.
InitTwin ==
    /\ STMDefault /\ EngineDefault /\ TeamEffectsDefault /\ CalcDefault /\ ProcDefault /\ CommentaryDefault /\ InitWith(DefaultSession)
    /\ \E seed \in 0 .. MaxSeed : TwinInitWith(seed)

NextTwin ==
    \/ \E k \in TwinIds : TwinStartHalf(k)
    \/ \E k \in TwinIds : TwinPull(k)

SpecTwin == InitTwin /\ [][NextTwin]_vars

\* The arguments the sessions of one process are constructed with.
ProcArgs == {DefaultSession, LopsidedSession, QuietSession}

\* Two sessions constructed, generated and streamed in one process, in any
\* interleaving, each with its own consumer.
InitProc ==
    /\ STMDefault /\ EngineDefault /\ TwinDefault /\ TeamEffectsDefault
    /\ CalcDefault /\ CommentaryDefault /\ InitWith(DefaultSession)
    /\ ProcInit

NextProc ==
    \/ \E k \in ProcIds, a \in ProcArgs : ProcConstruct(k, a)
    \/ \E k \in ProcIds : ProcStartHalf(k)
    \/ \E k \in ProcIds : ProcPull(k)

SpecProc == InitProc /\ [][NextProc]_vars

\* A CommentaryService that is given its match context and any batches, on
\* an LLM that may fail in any way at each request.
InitCommentary ==
    /\ STMDefault /\ EngineDefault /\ TwinDefault /\ TeamEffectsDefault
    /\ CalcDefault /\ ProcDefault /\ InitWith(DefaultSession)
    /\ \E u \in BOOLEAN : CommentaryInitWith(u)

NextCommentary ==
    \/ CallSetMatchContext
    \/ \E batch \in Batches : \E out \in LLMOutcomes(Len(batch)) :
          CallAddEvents(batch, out)
    \/ CallReset

SpecCommentary == InitCommentary /\ [][NextCommentary]_vars

\* _calculate_team_effects called on every fit score of [0, 1] that is a
\* multiple of 1/FitUnit.
InitTFC ==
    /\ STMDefault /\ EngineDefault /\ TwinDefault /\ CalcDefault /\ ProcDefault /\ CommentaryDefault /\ InitWith(DefaultSession)
    /\ \E tfs \in 0 .. FitUnit : tfc = TeamEffectsCall(tfs)

NextTFC == CallCalculateTeamEffects

SpecTFC == InitTFC /\ [][NextTFC]_vars

\* calculate_tactical_fit called twice with one built-in tactic: on an
\* attribute vector, and on the vector with one relevant attribute moved no
\* farther from its target.
InitFit ==
    /\ STMDefault /\ EngineDefault /\ TwinDefault /\ TeamEffectsDefault
    /\ ProcDefault /\ CommentaryDefault /\ InitWith(DefaultSession)
    /\ \E tactic \in BuiltInTactics :
          LET req == TacticTargets[tactic]
          IN \E base \in [DOMAIN req -> AttributeSamples \cup {req[a] : a \in DOMAIN req}],
                a \in DOMAIN req,
                v \in AttributeSamples \cup {req[x] : x \in DOMAIN req} :
                /\ Abs(v - req[a]) <= Abs(base[a] - req[a])
                /\ calc = (1 :> FitCall(base, tactic)) @@
                          (2 :> FitCall([base EXCEPT ![a] = v], tactic))

NextFit == \E k \in CallIds : CallCalculateTacticalFit(k)

SpecFit == InitFit /\ [][NextFit]_vars

\* calculate_match_effects called twice with the same fit score and tactic
\* for one team and any fit score and tactic for the other.
InitEffects ==
    /\ STMDefault /\ EngineDefault /\ TwinDefault /\ TeamEffectsDefault
    /\ ProcDefault /\ CommentaryDefault /\ InitWith(DefaultSession)
    /\ \E tfs \in FitSamples, tactic \in BuiltInTactics,
          tfs1 \in FitSamples, tactic1 \in BuiltInTactics,
          tfs2 \in FitSamples, tactic2 \in BuiltInTactics :
          \/ calc = (1 :> EffectsCall(tfs, tfs1, tactic, tactic1)) @@
                    (2 :> EffectsCall(tfs, tfs2, tactic, tactic2))
          \/ calc = (1 :> EffectsCall(tfs1, tfs, tactic1, tactic)) @@
                    (2 :> EffectsCall(tfs2, tfs, tactic2, tactic))

NextEffects == \E k \in CallIds : CallCalculateMatchEffects(k)

SpecEffects == InitEffects /\ [][NextEffects]_vars

\* The teams of the end-to-end scenario: home on tiki-taka, away on
\* park-the-bus.
ScenarioHome ==
    [passing |-> 90, dribbling |-> 75, pace |-> 60,
     shooting |-> 70, defending |-> 60, physicality |-> 60]

ScenarioAway ==
    [defending |-> 90, physicality |-> 80, passing |-> 45,
     pace |-> 50, shooting |-> 40, dribbling |-> 40]

\* A SimpleTacticalMatch built on the scenario's tactics from the scenario's
\* teams or from teams that differ from them in one rating.
InitScenario ==
    /\ EngineDefault /\ TwinDefault /\ TeamEffectsDefault /\ CalcDefault
    /\ ProcDefault /\ CommentaryDefault /\ InitWith(DefaultSession)
    /\ \E hp \in AttributeSamples \cup {ScenarioHome.passing},
          ap \in AttributeSamples \cup {ScenarioAway.passing} :
          STMInitWith([ScenarioHome EXCEPT !.passing = hp],
                      [ScenarioAway EXCEPT !.passing = ap],
                      "tiki-taka", "park-the-bus")

SpecScenario == InitScenario /\ [][NextSTM]_vars

\* One half of MatchEngineService: both teams sampled (at most one of them
\* the eventful sample), the events placed one by one and the dictionary
\* turned into records minute by minute, with and without a match context
\* set on the commentary service.
InitME ==
    /\ CalcDefault /\ ProcDefault /\ CommentaryDefault /\ InitWith(DefaultSession)
    /\ TwinDefault
    /\ TeamEffectsDefault
    /\ STMDefault
    /\ \E half \in {1, 2}, context_set \in BOOLEAN, home \in TeamSamples, away \in TeamSamples :
          /\ home.shots = 0 \/ away.shots = 0
          /\ EngineInitWith(half, context_set, SimulateTeam(home), SimulateTeam(away))

NextME ==
    \/ PlaceEvent
    \/ CallGenerateSimpleEvents
    \/ ProcessMinute

SpecME == InitME /\ [][NextME]_vars

\* ------------------------------------------------------------------------
\* Claims about MatchService
\* ------------------------------------------------------------------------
\* Number of goal events of team in evs with a minute up to minute
GoalsUpTo(evs, team, minute) ==
    Cardinality({i \in 1 .. Len(evs) :
        evs[i].type = "goal" /\ evs[i].team = team /\ evs[i].minute <= minute})

\* C1: the score carried by every emitted record (event or minute_update),
\* and the session's current score at that moment, equal the number of goal
\* events emitted so far for each team.
C1_ScoreEqualsGoalsEmitted ==
    last.kind # "none" => (last.score = hist.goals /\ current_score = hist.goals)

\* C2: the score attached to each emitted event equals, per team, the number
\* of goal events of the match whose minute is at most the event's minute.
C2_EventScoreCountsGoalsUpToMinute ==
    last.kind = "event" =>
        \A t \in Teams : last.score[t] = GoalsUpTo(events, t, last.minute)

\* C3: a pull on a stream_second_half generator of a session whose first half
\* has not completed fails with the state error (RuntimeError), emits no
\* record and leaves the event list, score and stats unchanged.
C3_SecondHalfBeforeHalfTimeFails ==
    [][(/\ gen.kind = "second"
        /\ gen.st = "created"
        /\ ~hist.first_done
        /\ gen'.st # "created"
        /\ gen'.st # "closed")
       => (/\ gen'.st = "failed"
           /\ gen'.err = "RuntimeError"
           /\ last' = last
           /\ events' = events
           /\ current_score' = current_score
           /\ stats' = stats)]_vars

\* C3 witness: the first generator ever created on the session was a
\* stream_second_half one, and its first pull raised RuntimeError.
C3_Witness ==
    /\ gen.kind = "second" /\ gen.sid = 1
    /\ gen.st = "failed" /\ gen.err = "RuntimeError"
    /\ last.kind = "none" /\ events = <<>>

\* C4: a pull on a stream_second_half generator of a SimpleTacticalMatch on
\* which no stream_first_half generator was ever pulled fails, and fails with
\* a state error.
C4_FreshSecondHalfStateError ==
    (sgen.kind = "second" /\ ~shist.first_pulled /\ sgen.st \notin {"none", "created", "closed"})
        => (sgen.st = "failed" /\ sgen.err = "StateError")

\* C5: once the half-time marker has been emitted the session is in the
\* half-time state: a stream_second_half generator pulled after the marker
\* was emitted, also by a consumer that stopped right at the marker, does not
\* fail with the state error (RuntimeError).
C5_HalfTimeMarkerSetsHalfTime ==
    (hist.half_time_emitted /\ gen.kind = "second" /\ gen.st = "failed")
        => gen.err # "RuntimeError"

\* C6: each half's stream is non-restartable: once a stream_first_half
\* (stream_second_half) generator has run to its end, a further generator of
\* that half emits nothing, generates no events and changes neither the
\* score nor the stats.
C6_HalvesNotRestartable ==
    [][(\/ hist.first_done /\ gen.kind = "first" /\ gen'.kind = "first"
        \/ hist.second_done /\ gen.kind = "second" /\ gen'.kind = "second")
       => (/\ last' = last
           /\ events' = events
           /\ current_score' = current_score
           /\ stats' = stats)]_vars

\* C7: every event emitted by stream_second_half has a minute above 45, and
\* no half-time marker is emitted by it.
C7_SecondHalfEventsAfter45 ==
    (last.stream = "second" /\ last.kind = "event")
        => (last.minute > HalfTimeMinute /\ last.type # "half-time")

\* C8: within one generator the minutes of the emitted records never
\* decrease, and each minute_update carries the minute after the one of the
\* generator's previous minute_update.
C8_MinutesMonotone ==
    [][(last'.sid = last.sid /\ last'.seq = last.seq + 1)
       => (/\ last'.minute >= last.minute
           /\ (last'.kind = "minute_update" /\ hist.last_tick # 0)
                 => last'.minute = hist.last_tick + 1)]_vars

\* C8 witness: a minute_update emitted after an event of the same generator.
C8_Witness ==
    /\ last.kind = "minute_update"
    /\ gen.st = "suspended" /\ gen.idx > 1
    /\ hist.last_tick > 1

\* C9: in every stats snapshot carried by an emitted record, home possession
\* plus away possession is 100.
C9_PossessionSumsTo100 ==
    last.kind # "none" =>
        last.stats["home"].possession + last.stats["away"].possession = 100

\* C10: each team's shotsOnTarget never exceeds its shots, in the session's
\* stats and in every snapshot carried by an emitted record.
C10_ShotsOnTargetAtMostShots ==
    \A t \in Teams :
        /\ stats[t].shotsOnTarget <= stats[t].shots
        /\ last.stats[t].shotsOnTarget <= last.stats[t].shots

\* C10 witness: a session configured with more shots on target than shots has
\* emitted a substitution, whose progressive update had to be clamped.
C10_Witness ==
    /\ params.p.SHOTS_ON_TARGET_HOME > params.p.SHOTS_HOME
    /\ last.kind = "event" /\ last.type = "substitution"
    /\ Progressive(params.p.SHOTS_ON_TARGET_HOME, last.minute)
         > Progressive(params.p.SHOTS_HOME, last.minute)
    /\ last.stats["home"].shotsOnTarget = last.stats["home"].shots


\* The counters of a stats snapshot that C12 speaks of.
Counters == {"shots", "shotsOnTarget", "corners", "fouls", "yellowCards", "redCards"}

\* C12: each team's shots, shotsOnTarget, corners, fouls, yellowCards and
\* redCards never decrease from one stats snapshot of the session to the
\* next (a counter a snapshot does not hold yet reads as 0).
C12_CountersNeverDecrease ==
    [][\A t \in Teams, k \in Counters : Get(stats'[t], k, 0) >= Get(stats[t], k, 0)]_vars

\* hist.yellows holds the yellow-card minutes emitted by the generator
\* numbered hist.streams, the one last came from unless a new generator has
\* been created since.

\* C13: every emitted red card is preceded in the same stream by a yellow
\* card of the same team at a strictly earlier minute; a session sampling no
\* yellow cards for a team (yellow lambda 0) emits no red card for it.
C13_RedCardAfterYellow ==
    (last.kind = "event" /\ last.type = "red_card" /\ last.sid = hist.streams) =>
        /\ \E y \in hist.yellows[last.team] : y < last.minute
        /\ ~params.debug_mode =>
              (IF last.team = "home" THEN params.p.YELLOW_LAMBDA_HOME
                                      ELSE params.p.YELLOW_LAMBDA_AWAY) > 0

\* C13 witness: a sampled (not debug) timeline's red card has been emitted.
C13_Witness ==
    /\ ~params.debug_mode
    /\ last.kind = "event" /\ last.type = "red_card"
    /\ hist.yellows[last.team] # {}

\* C14: the red card that follows a yellow card at minute y has a minute r
\* with y + 1 <= r <= min(y + 25, 90).
C14_RedCardWithin25Minutes ==
    (/\ ~params.debug_mode
     /\ last.kind = "event" /\ last.type = "red_card"
     /\ last.sid = hist.streams) =>
        \E y \in hist.yellows[last.team] :
            y + 1 <= last.minute /\ last.minute <= Min(y + 25, FullTimeMinute)

\* C14 witness: a red card emitted 25 minutes after its yellow card.
C14_Witness ==
    /\ ~params.debug_mode
    /\ last.kind = "event" /\ last.type = "red_card"
    /\ hist.yellows[last.team] = {last.minute - 25}

\* C15: whatever generators are created and consumed, the number of
\* substitution events generated for a team (held in self._events) never
\* exceeds SUBS_PER_TEAM.
C15_SubstitutionsCapped ==
    \A t \in Teams : SubsMade(events, t) <= SUBS_PER_TEAM

\* C16: when a half's generator has been consumed to its end, the last
\* record it emitted is the half's marker: half-time at minute 45 for the
\* first half, full-time at minute 90 + offset, offset in ExtraMin..ExtraMax,
\* for the second half.
C16_HalfEndsWithItsMarker ==
    gen.st = "done" =>
        /\ last.sid = gen.sid
        /\ last.kind = "event"
        /\ gen.kind = "first" =>
              (last.type = "half-time" /\ last.minute = HalfTimeMinute)
        /\ gen.kind = "second" =>
              /\ last.type = "full-time"
              /\ last.minute \in (FullTimeMinute + ExtraMin)..(FullTimeMinute + ExtraMax)

\* The event types that are goals, cards or substitutions.
PlayTypes == {"goal", "yellow_card", "red_card", "substitution"}

\* C17: no generated event and no emitted record carries minute 0; a goal,
\* card or substitution emitted by the first half has a minute in 1..45 and
\* one emitted by the second half a minute in 46..90.
C17_MinutesOneBasedPerHalf ==
    /\ \A i \in DOMAIN events : events[i].minute >= 1
    /\ last.kind # "none" => last.minute >= 1
    /\ (last.kind = "event" /\ last.type \in PlayTypes) =>
          IF last.stream = "first"
          THEN last.minute \in 1..HalfTimeMinute
          ELSE last.minute \in (HalfTimeMinute + 1)..FullTimeMinute

\* C17 witness: a second-half goal at minute 46 emitted after a first-half
\* goal at minute 45.
C17_Witness ==
    /\ last.kind = "event" /\ last.type = "goal" /\ last.stream = "second"
    /\ last.minute = HalfTimeMinute + 1
    /\ \E i \in DOMAIN events :
          events[i].type = "goal" /\ events[i].minute = HalfTimeMinute

\* The session has nothing more to emit.
TwinOver(k) == twin[k].phase \in {"full-time", "failed"}

SessionView(k) ==
    LET s == proc.inst[k]
    IN [params |-> SessionParams(k),
        current_score |-> proc.heap[s.current_score],
        stats |-> proc.heap[s.stats],
        events |-> proc.heap[s.events]]

\* A step of session j: its construction, the start of a half or one pull.
ProcStep(j) ==
    \/ \E a \in ProcArgs : ProcConstruct(j, a)
    \/ ProcStartHalf(j)
    \/ ProcPull(j)

\* C29: two sessions of one process share no mutable state: a step of one
\* session (constructing, generating, streaming) leaves the other session's
\* parameters, score, stats and event list as they were, the class-level
\* defaults stay the original ones, and every session reads the parameters
\* its own constructor arguments give on the original defaults.
C29_SessionsShareNoState ==
    [][/\ (proc.cls = ClassDefaults)'
       /\ \A k \in ProcIds :
             (proc.inst[k].made => SessionParams(k) = ConstructParams(proc.inst[k].args).p)'
       /\ \A j \in ProcIds : ProcStep(j) =>
             \A k \in ProcIds \ {j} :
                proc.inst[k].made => SessionView(k)' = SessionView(k)]_vars

\* Session 1, built on lopsided attributes, has been streamed to full time
\* with a goal, and session 2 was constructed after it with the default
\* arguments.
C29_Witness ==
    /\ proc.inst[1].made /\ proc.inst[2].made
    /\ proc.inst[1].args = LopsidedSession
    /\ proc.inst[2].args = DefaultSession
    /\ proc.inst[2].events > proc.inst[1].events
    /\ proc.inst[1].phase = "full-time"
    /\ proc.heap[proc.inst[1].current_score] # ZeroScore
    /\ proc.heap[proc.inst[2].events] = <<>>

\* The ratings _adjust_parameters_from_attributes reads from a team's map.
RatingsRead == {"shooting", "passing", "physicality"}

\* C26: a session whose home or away attribute map is missing, or lacks a
\* rating the constructor reads, never starts simulating: it generates no
\* event and emits no record.
C26_MissingAttributesRejected ==
    (\E r \in RatingsRead :
        \/ r \notin DOMAIN params.home_team_attributes
        \/ r \notin DOMAIN params.away_team_attributes) =>
        (~generated /\ events = <<>> /\ last = NoRecord)

\* ------------------------------------------------------------------------
\* Claims about MatchEngineService
\* ------------------------------------------------------------------------
\* The records generate_simple_events has produced so far.
EngineRecords == engine.events_json \o engine.current_batch

\* C11: in the stats snapshot of every event object produced by
\* generate_simple_events for a half started from zero stats, each team's
\* shotsOnTarget is at most its shots, wherever the Shots_* and Target_*
\* events were placed.
C11_EngineShotsOnTargetAtMostShots ==
    \A i \in 1 .. Len(EngineRecords) :
        EngineRecords[i].type = "event" =>
            \A t \in Teams :
                EngineRecords[i].stats[t].shotsOnTarget <= EngineRecords[i].stats[t].shots

\* C31: no scheduled event is silently dropped: when generate_simple_events
\* has returned, every minute of the half has as many emitted event objects
\* of the teams as simulate_half placed entries at it (the Red_* entries
\* included).
C31_EveryPlacedEntryEmitted ==
    engine.phase = "returned" =>
        \A m \in DOMAIN engine.event_dict :
            Cardinality({i \in DOMAIN engine.events_json :
                            /\ engine.events_json[i].type = "event"
                            /\ engine.events_json[i].minute = m
                            /\ engine.events_json[i].team \in Teams})
                = Len(engine.event_dict[m])

\* ------------------------------------------------------------------------
\* Claims about TacticalFitCalculator
\* ------------------------------------------------------------------------
\* C19: _calculate_team_effects returns what the four-band reference gives:
\* (1, 1, 0) from 0.80 on; positive = negative = (fit - 0.5)/0.3 and penalty
\* 0 on [0.50, 0.80); positive = negative = 0 and penalty (0.5 - fit)/0.1 on
\* [0.40, 0.50); (0, 0, 1) below 0.40.
C19_AgreesWithFourBandReference ==
    tfc.returned =>
        LET fit == tfc.tfs
            reference ==
                IF fit * 100 >= 80 * FitUnit
                THEN [positive_effect |-> EffectUnit, negative_effect |-> EffectUnit,
                      penalty |-> 0]
                ELSE IF fit * 100 >= 50 * FitUnit
                THEN [positive_effect |-> ((2 * fit - FitUnit) * EffectUnit * 10) \div (6 * FitUnit),
                      negative_effect |-> ((2 * fit - FitUnit) * EffectUnit * 10) \div (6 * FitUnit),
                      penalty |-> 0]
                ELSE IF fit * 100 >= 40 * FitUnit
                THEN [positive_effect |-> 0, negative_effect |-> 0,
                      penalty |-> ((FitUnit - 2 * fit) * EffectUnit * 10) \div (2 * FitUnit)]
                ELSE [positive_effect |-> 0, negative_effect |-> 0, penalty |-> EffectUnit]
        IN tfc.effects = reference


\* C20: the profile returned by _calculate_team_effects has positive_effect,
\* negative_effect and penalty each within [0, 1], positive_effect equal to
\* negative_effect, and never both positive_effect > 0 and penalty > 0.
C20_EffectsBoundedAndExclusive ==
    tfc.returned =>
        /\ tfc.effects.positive_effect \in 0 .. EffectUnit
        /\ tfc.effects.negative_effect \in 0 .. EffectUnit
        /\ tfc.effects.penalty \in 0 .. EffectUnit
        /\ tfc.effects.positive_effect = tfc.effects.negative_effect
        /\ ~(tfc.effects.positive_effect > 0 /\ tfc.effects.penalty > 0)

\* C20 witness: a profile from inside the penalty band, with a penalty
\* strictly between 0 and 1.
C20_Witness ==
    /\ tfc.returned
    /\ tfc.effects.penalty > 0 /\ tfc.effects.penalty < EffectUnit
    /\ tfc.effects.positive_effect = 0


\* C21: calculate_tactical_fit returns a value in [0, 1] for every built-in
\* tactic and every integer attribute vector, values outside 0..100 included.
C21_FitWithinUnitInterval ==
    \A k \in CallIds : calc[k].returned => calc[k].fit \in 0 .. FitUnit

\* C22: with a built-in tactic, moving one relevant attribute closer to its
\* target never lowers the fit score, and attributes equal to the targets
\* give exactly 1.0.
C22_FitMonotoneAndOneAtTargets ==
    /\ (calc[1].returned /\ calc[2].returned) => calc[2].fit >= calc[1].fit
    /\ \A k \in CallIds :
          (calc[k].returned /\ calc[k].team_attributes = TacticTargets[calc[k].tactic])
              => calc[k].fit = FitUnit

\* C22 witness: an attribute moved onto its target completes the target
\* vector and raises the fit score to 1.0.
C22_Witness ==
    /\ calc[1].returned /\ calc[2].returned
    /\ calc[2].team_attributes = TacticTargets[calc[2].tactic]
    /\ calc[1].fit < calc[2].fit


ScenarioBuilt ==
    /\ stm.home_attributes = ScenarioHome /\ stm.away_attributes = ScenarioAway
    /\ stm.home_tactic = "tiki-taka" /\ stm.away_tactic = "park-the-bus"

\* C24 as stated: in the scenario the home fit is at least 0.8, the away fit
\* is below the top band (below 0.80), and the home goal_probability exceeds
\* the away goal_probability.
C24_ScenarioAsStated ==
    ScenarioBuilt =>
        /\ stm.home_tfs * 100 >= 80 * FitUnit
        /\ stm.away_tfs * 100 < 80 * FitUnit
        /\ stm.home_effects.goal_probability > stm.away_effects.goal_probability

\* C24 amended: in the scenario both teams' attributes equal their tactic's
\* targets, so the home fit and the away fit are both 1.0 (top band), and
\* the home goal_probability exceeds the away goal_probability.
C24_ScenarioBothFitsOne ==
    ScenarioBuilt =>
        /\ stm.home_tfs = FitUnit
        /\ stm.away_tfs = FitUnit
        /\ stm.home_effects.goal_probability > stm.away_effects.goal_probability

\* C24 witness: the scenario's match, built and with its profiles computed.
C24_Witness ==
    /\ ScenarioBuilt
    /\ stm.home_effects.positive_effect = EffectUnit
    /\ stm.away_effects.positive_effect = EffectUnit


\* C25: a SimpleTacticalMatch never holds a tactic that is not built in
\* together with fit scores and effect profiles computed for it: a tactic
\* name outside the six is refused by the constructor and by update_tactic.
C25_UnknownTacticRejected ==
    /\ Lower(stm.home_tactic) \in BuiltInTactics
    /\ Lower(stm.away_tactic) \in BuiltInTactics


\* ------------------------------------------------------------------------
\* Claims about SimpleTacticalMatch
\* ------------------------------------------------------------------------
\* What update_tactic(team, new_tactic) may change between two states: the
\* named team's tactic and fit score and the two profiles.
UpdateTacticFrame(team, new_tactic) ==
    /\ stm'.current_score = stm.current_score
    /\ stm'.first_half_events = stm.first_half_events
    /\ stm'.second_half_events = stm.second_half_events
    /\ stm'.home_attributes = stm.home_attributes
    /\ stm'.away_attributes = stm.away_attributes
    /\ slast' = slast /\ sgen' = sgen
    /\ IF team = "home"
       THEN /\ stm'.home_tactic = new_tactic
            /\ stm'.home_tfs = CalculateTacticalFit(stm.home_attributes, new_tactic)
            /\ stm'.away_tactic = stm.away_tactic /\ stm'.away_tfs = stm.away_tfs
       ELSE /\ stm'.away_tactic = new_tactic
            /\ stm'.away_tfs = CalculateTacticalFit(stm.away_attributes, new_tactic)
            /\ stm'.home_tactic = stm.home_tactic /\ stm'.home_tfs = stm.home_tfs
    /\ stm'.home_effects = TeamEffects("home", stm'.home_tfs, stm'.home_tactic)
    /\ stm'.away_effects = TeamEffects("away", stm'.away_tfs, stm'.away_tactic)

C30_EveryEventDescribed ==
    cs.status \in {"returned", "TypeError"} =>
        /\ cs.status = "returned"
        /\ \A i \in DOMAIN cs.descriptions :
              IsEventRecord(cs.batch[i]) =>
                  cs.descriptions[i] \notin {"None", "missing"}

\* ------------------------------------------------------------------------
\* Further claims about SimpleTacticalMatch and MatchService
\* ------------------------------------------------------------------------
\* C32: every key _generate_events_for_minute reads is in both profiles of
\* calculate_match_effects, so that a pulled stream_first_half generator has
\* generated its half without error.
C32_FirstHalfGeneratesWithoutError ==
    (sgen.kind = "first" /\ sgen.st # "created") =>
        /\ \A k \in DOMAIN EventTests :
              EventTests[k].key \in DOMAIN EffectsOf(stm, EventTests[k].team)
        /\ sgen.st # "failed"

\* C33: generating the timeline of a half completes without raising for
\* every outcome of the random draws: no stream of a session ends with the
\* ValueError of a card simulation.
C33_TimelineGenerationNeverRaises ==
    ~(gen.st = "failed" /\ gen.err = "ValueError")

\* ------------------------------------------------------------------------
\* Further claims about TacticalFitCalculator
\* ------------------------------------------------------------------------
\* C34: for a fixed tactic, when a team's fit score increases its
\* positive_effect does not decrease, its penalty does not increase and its
\* goal_probability does not decrease: two calls of calculate_match_effects
\* with the same tactic for a team are ordered as their fit scores are.
C34_EffectsMonotoneInFit ==
    \A j \in CallIds, k \in CallIds :
        (calc[j].returned /\ calc[k].returned) =>
            /\ (calc[j].home_tactic = calc[k].home_tactic
                    /\ calc[j].home_tfs <= calc[k].home_tfs) =>
                  /\ calc[j].home_effects.positive_effect <= calc[k].home_effects.positive_effect
                  /\ calc[j].home_effects.penalty >= calc[k].home_effects.penalty
                  /\ calc[j].home_effects.goal_probability <= calc[k].home_effects.goal_probability
            /\ (calc[j].away_tactic = calc[k].away_tactic
                    /\ calc[j].away_tfs <= calc[k].away_tfs) =>
                  /\ calc[j].away_effects.positive_effect <= calc[k].away_effects.positive_effect
                  /\ calc[j].away_effects.penalty >= calc[k].away_effects.penalty
                  /\ calc[j].away_effects.goal_probability <= calc[k].away_effects.goal_probability

\* C35: whenever a team's penalty is 1.0 (a fit score in the maximum-penalty
\* band, or an unrecognised tactic giving fit 0.0), its goal_probability is
\* 0 and the per-minute goal test `rng.random() < goal_probability` cannot
\* succeed for it while that profile is in force.
C35_FullPenaltyMeansNoGoal ==
    \A team \in Teams :
        EffectsOf(stm, team).penalty = EffectUnit =>
            /\ EffectsOf(stm, team).goal_probability = 0
            /\ RandomBelow(EffectsOf(stm, team).goal_probability) = {FALSE}

\* C35 witness: after an update_tactic, the home team is on an unrecognised
\* tactic with fit 0.0 and the away team on a built-in tactic with a fit
\* score in the maximum-penalty band; both have penalty 1.0.
C35_Witness ==
    /\ shist.tactic_updated
    /\ stm.home_tactic = "long-ball" /\ stm.home_tfs = 0
    /\ stm.home_effects.penalty = EffectUnit
    /\ stm.away_tactic = "park-the-bus"
    /\ stm.away_tfs > 0 /\ stm.away_tfs < 120
    /\ stm.away_effects.penalty = EffectUnit

\* ------------------------------------------------------------------------
\* Further claims about MatchEngineService
\* ------------------------------------------------------------------------
\* The number of entries s placed in the dictionary of engine state e.
PlacedCount(e, s) ==
    Cardinality(UNION {{<<m, i>> : i \in {j \in DOMAIN e.event_dict[m] :
                                            e.event_dict[m][j] = s}} :
                          m \in DOMAIN e.event_dict})

\* The number of entries s of the events list not placed yet.
PendingCount(e, s) == Cardinality({i \in DOMAIN e.pending : e.pending[i] = s})

EventStrings ==
    {"Shots_Home", "Shots_Away", "Target_Home", "Target_Away", "Goals_Home",
     "Goals_Away", "Yellow_Home", "Yellow_Away", "Red_Home", "Red_Away"}

\* C36: simulate_half places every sampled event exactly once (no step
\* changes the number of entries of a kind that are pending or placed), at
\* a minute before the last one of the half; the dictionary has a key for
\* every minute of the half, the last minute (45 or 90) holds no entry, and
\* once all are placed each team's totals satisfy goals <= shots on target
\* <= shots with shots >= 1.
C36_EveryEventPlacedOnceBeforeLastMinute ==
    [][/\ \A s \in EventStrings :
             PlacedCount(engine', s) + PendingCount(engine', s)
                = PlacedCount(engine, s) + PendingCount(engine, s)
       /\ DOMAIN engine'.event_dict
             = StartMinute(engine'.half) .. EndMinute(engine'.half)
       /\ engine'.event_dict[EndMinute(engine'.half)] = <<>>
       /\ engine'.pending = <<>> =>
             /\ PlacedCount(engine', "Goals_Home") <= PlacedCount(engine', "Target_Home")
             /\ PlacedCount(engine', "Target_Home") <= PlacedCount(engine', "Shots_Home")
             /\ PlacedCount(engine', "Shots_Home") >= 1
             /\ PlacedCount(engine', "Goals_Away") <= PlacedCount(engine', "Target_Away")
             /\ PlacedCount(engine', "Target_Away") <= PlacedCount(engine', "Shots_Away")
             /\ PlacedCount(engine', "Shots_Away") >= 1]_vars

\* C36 witness: simulate_half of the second half has placed all its events,
\* a goal and a red card among them, some at minute 46 and some at 89.
C36_Witness ==
    /\ engine.half = 2 /\ engine.pending = <<>>
    /\ engine.event_dict[HalfTimeMinute + 1] # <<>>
    /\ engine.event_dict[FullTimeMinute - 1] # <<>>
    /\ PlacedCount(engine, "Goals_Home") = 1
    /\ PlacedCount(engine, "Red_Home") = 1

\* What the claim expects for one minute of state e: the event objects of
\* the mapped entries in the order they were placed, one minute_update, and
\* the marker after minute 45 or 90; each as <<type, minute, team, event type>>.
MinuteExpected(e, m) ==
    LET mapped == SelectSeq(e.event_dict[m], LAMBDA x : x \in DOMAIN EventMapping)
    IN [i \in 1 .. Len(mapped) |->
           <<"event", m, EventMapping[mapped[i]].team, EventMapping[mapped[i]].type>>]
       \o << <<"minute_update", m, "", "">> >>
       \o (IF m = HalfTimeMinute THEN << <<"event", m, "system", "half-time">> >>
           ELSE IF m = FullTimeMinute THEN << <<"event", m, "system", "full-time">> >>
           ELSE <<>>)

\* The expected records of the minutes of the half up to m, in minute order.
RECURSIVE ExpectedUpTo(_, _)
ExpectedUpTo(e, m) ==
    IF m < StartMinute(e.half) THEN <<>>
    ELSE ExpectedUpTo(e, m - 1) \o MinuteExpected(e, m)

\* The records of a list, each as <<type, minute, team, event type>>.
RecordKeys(l) == [i \in DOMAIN l |-> <<l[i].type, l[i].minute, l[i].team, l[i].etype>>]

\* C37: generate_simple_events produces, in ascending minute order, for each
\* minute its event objects followed by exactly one minute_update, and the
\* half-time or full-time marker as the final element; the batches of at
\* least BatchSize records lose, duplicate and reorder nothing (what is
\* returned and what is in the open batch are together the expected records
\* of the minutes processed) and nothing is unflushed when it returns.
C37_RecordsInMinuteOrderAndBatchedLosslessly ==
    /\ engine.phase = "generating" =>
          /\ RecordKeys(EngineRecords) = ExpectedUpTo(engine, engine.minute - 1)
          /\ (engine.current_batch # <<>> => Len(engine.current_batch) < BatchSize)
    /\ engine.phase = "returned" =>
          /\ RecordKeys(engine.events_json) = ExpectedUpTo(engine, EndMinute(engine.half))
          /\ engine.current_batch = <<>>
          /\ engine.events_json[Len(engine.events_json)].etype
                = (IF engine.half = 2 THEN "full-time" ELSE "half-time")

\* C37 witness: the first half has returned after several flushes, with
\* three or more event objects at minute 1 and some at minute 44.
C37_Witness ==
    /\ engine.phase = "returned" /\ engine.half = 1
    /\ Len(engine.event_dict[1]) >= 3
    /\ engine.event_dict[HalfTimeMinute - 1] # <<>>
    /\ Len(engine.events_json) > 2 * BatchSize
    /\ engine.events_json[1].type = "event"
(***************************************************************************)
(* Further claims about CommentaryService                                  *)
(***************************************************************************)

\* A step of add_events: the only operation that leaves a status other than
\* "idle" and the match context as it was.
AddEventsStep ==
    /\ cs' # cs
    /\ cs'.status # "idle"
    /\ cs'.match_context = cs.match_context

\* C38: after any sequence of add_events calls the context window holds at
\* most window_size entries, and they are the most recent records of type
\* 'event' in arrival order: a call with the match context set leaves the
\* last window_size of the old window followed by the batch's events.
\* minute_update records never enter the window and nothing is written on
\* them.
C38_WindowHoldsMostRecentEvents ==
    [][/\ Len(cs'.context_window) <= WindowSize
       /\ \A i \in DOMAIN cs'.context_window :
             IsEventRecord(cs'.context_window[i])
       /\ (AddEventsStep /\ cs.match_context) =>
             LET arrived == cs.context_window
                              \o SelectSeq(cs'.batch, IsEventRecord)
                 n == IF Len(arrived) < WindowSize THEN Len(arrived)
                      ELSE WindowSize
             IN /\ Len(cs'.context_window) = n
                /\ \A i \in 1 .. n :
                      cs'.context_window[i] = arrived[Len(arrived) - n + i]
                /\ \A i \in DOMAIN cs'.batch :
                      ~IsEventRecord(cs'.batch[i]) =>
                          cs'.descriptions[i] = "missing"]_vars

\* A full window after a call whose batch held a minute_update and an event.
C38_Witness ==
    /\ cs.status = "returned"
    /\ Len(cs.context_window) = WindowSize
    /\ \E i \in DOMAIN cs.batch : ~IsEventRecord(cs.batch[i])
    /\ \E i \in DOMAIN cs.batch :
          /\ IsEventRecord(cs.batch[i])
          /\ cs.context_window[WindowSize] = cs.batch[i]
          /\ cs.context_window[1] # cs.batch[i]

\* C39: add_events called while no match context is set, before
\* set_match_context or after reset, fails with ValueError and leaves the
\* context window, the commentary cache and the passed events as they were.
C39_NoContextFailsWithoutEffect ==
    [][(AddEventsStep /\ ~cs.match_context) =>
          /\ cs'.status = "ValueError"
          /\ cs'.context_window = cs.context_window
          /\ cs'.cache = cs.cache
          /\ \A i \in DOMAIN cs'.batch : cs'.descriptions[i] = "missing"]_vars

\* add_events failed after a reset, on a batch that holds an event.
C39_Witness ==
    /\ cs.was_reset
    /\ ~cs.match_context
    /\ cs.status = "ValueError"
    /\ \E i \in DOMAIN cs.batch : IsEventRecord(cs.batch[i])

============================================================================
